---- MODULE Spec2Model ----
(***************************************************************************)
(* Flint gateway core: the per-thread work queue and the gateway task it   *)
(* serialises (apps/gateway index), the idempotency store and the POST     *)
(* routes that use it, and the Agent Protocol client (sdk AppServerClient) *)
(* driven by the gateway's runTurn.                                        *)
(*                                                                         *)
(* Every step of the model is one synchronous stretch of the JavaScript    *)
(* code: from the resumption of a coroutine to its next `await`.           *)
(***************************************************************************)
EXTENDS Integers, Sequences, FiniteSets, TLC

VARIABLES
    \* ---- PerKeyQueue and FlintGateway.processMessage
    queues,        \* PerKeyQueue.queues: Map key -> array of queued jobs
    running,       \* PerKeyQueue.running: Set of keys with a live drain
    draining,      \* the drain coroutines suspended in `await job()`: the jobs awaited
    callKey,       \* threadId of every processMessage call made so far, in call order
    phase,         \* where the task of each call stands
    started,       \* the calls whose task has begun executing, in that order
    store,         \* ThreadStore.data.threads: threadId -> the call that last upserted it
    \* ---- IdempotencyStore and the POST routes of createGatewayApp
    done,          \* IdempotencyStore.done: Map key -> {ts, fingerprint, result}
    inflight,      \* IdempotencyStore.inflight: Map key -> the request whose promise it holds
    now,           \* Date.now()
    reqs,          \* the POST requests received so far, in order of arrival
    \* ---- AppServerClient (one peer and its child) and FlintGateway.runTurn
    child,         \* the spawned process: "none", "alive" or "exited"
    exitCode,      \* what proc.exited resolves to
    proc,          \* this.proc: "null" or "p"
    stdin,         \* this.stdin: "null" or "open"
    isClosing,     \* this.isClosing
    initialized,   \* this.initialized
    threadId,      \* this.threadId: 0 for null
    currentTurnId, \* this.currentTurnId: 0 for null
    nextId,        \* this.nextId
    pendingRequests, \* this.pendingRequests: the ids in the table
    calls,         \* the promise of every request made: method and settlement
    notificationListeners, \* this.notificationListeners
    stderrHistory, \* this.stderrHistory
    toChild,       \* the lines written to the child's stdin, in order
    fromChild,     \* the lines the child wrote to stdout that readStdout has not read
    stderrPipe,    \* the stderr lines the child wrote that readStderr has not read
    agent,         \* the child's own progress (what it has answered and emitted)
    serverRequests, \* every server request handleMessage was given, and what the client was then
    watcher,       \* watchProcessExit: "off", "waiting" in `await proc.exited`, "done"
    pc,            \* where the gateway's use of the client stands
    events,        \* prompt(): the listener's queue of translated events
    turnDone,      \* prompt(): `done`
    stream,        \* the events prompt() has yielded to runTurn, in order
    timer,         \* runTurn: the inactivity timer is armed
    timedOut,      \* runTurn: `timedOut`
    expiries,      \* how many times the inactivity timer has expired
    responseText,  \* runTurn: `responseText`, as the sequence of deltas
    terminalError, \* runTurn: `terminalError` is set
    thrown,        \* what the gateway call that ended in "threw" threw
    caller,        \* the SSE caller of the turn: "connected" or "gone"
    writeFailed,   \* a stream.writeSSE of this turn found the caller gone
    \* ---- FlintGateway: the runtime registry and the thread store, for one threadId
    threads,       \* ThreadStore.data.threads[threadId]: the thread's record
    runtimes,      \* FlintGateway.runtimes.get(threadId): the thread's runtime
    clients,       \* every client createClient has made, in order, and its state
    clock,         \* Date.now(), in ticks
    task,          \* the processMessage task the queue is running, and its locals
    handled,       \* how many messages the queue has finished with
    options,       \* GatewayOptions: what the gateway was configured with
    stopped,       \* the gateway process: "running", "closed" (close() was called), "exited"
    interrupts,    \* the interruptThread calls that found a runtime, and when they were made
    \* ---- createWebhookHandler: one channel adapter's webhook
    seenEvents,    \* seen: Map eventId -> Date.now() when it was accepted
    deliveries,    \* the webhook requests received so far, and where each stands
    wnow,          \* Date.now(), in ticks
    \* ---- pure functions under test
    input,         \* the arguments drawn for the function
    output,        \* what it returned for them
    \* ---- an app server: StdioTransport, processor and one Thread
    buffer,        \* StdioTransport.start: the lines on stdin not yet processed
    threadState,   \* Thread: currentTurnId and abortController, 0 for undefined
    turnRuns,      \* every executeTurn generator started, in order, and where it stands
    sent           \* stdio.send: the lines written to stdout, in order

qvars == <<queues, running, draining, callKey, phase, started, store>>
ivars == <<done, inflight, now, reqs>>
cvars == <<child, exitCode, proc, stdin, isClosing, initialized, threadId, currentTurnId,
           nextId, pendingRequests, calls, notificationListeners, stderrHistory>>
wvars == <<toChild, fromChild, stderrPipe, agent, serverRequests, watcher>>
tvars == <<pc, events, turnDone, stream, timer, timedOut, expiries, responseText,
           terminalError, thrown>>
svars == <<caller, writeFailed>>
pvars == <<cvars, wvars, tvars, svars>>
avars == <<stopped, interrupts>>
gvars == <<threads, runtimes, clients, clock, task, handled, options, avars>>

hvars == <<seenEvents, deliveries, wnow>>
fvars == <<input, output>>
appvars == <<buffer, threadState, turnRuns, sent>>

vars == <<qvars, ivars, pvars, gvars, hvars, fvars, appvars>>

\* ---------------------------------------------------------------- bounds
MaxCalls == 3
NumThreads == 2
MaxReqs == 2
MaxTime == 2
\* IdempotencyStore.ttlMs, in the ticks of `now`
ttlMs == 1

ThreadIds == 1..NumThreads
Calls == 1..MaxCalls

\* ---------------------------------------------------------------- Map helpers
MapHas(m, k) == k \in DOMAIN m
MapSet(m, k, v) == [x \in (DOMAIN m) \cup {k} |-> IF x = k THEN v ELSE m[x]]
MapDelete(m, k) == [x \in (DOMAIN m) \ {k} |-> m[x]]
EmptyMap == [x \in {} |-> 0]

\* ====================================================================
\* PerKeyQueue
\* ====================================================================

\* `this.queues.get(key) ?? []`
QueueGet(key) == IF MapHas(queues, key) THEN queues[key] ELSE <<>>

\* `if (this.running.has(key)) return;` the guard at the head of drain()
DrainUnguarded(key) == FALSE
DrainBusyAnyKey(key) == running # {}
DrainBusy(key) == key \in running

\* `queue.shift()`: the job taken and the array left
PopJob(queue) == [job |-> queue[Len(queue)], rest |-> SubSeq(queue, 1, Len(queue) - 1)]
ShiftJob(queue) == [job |-> Head(queue), rest |-> Tail(queue)]

\* The states of a task: processMessage's closure, run by `wrapped` inside a job.
\*   queued   pushed on queues[key], not yet shifted
\*   ensure   running, suspended inside ensureThreadRuntime
\*   turn     running, suspended inside runTurn
\*   upsert   running, suspended in store.upsert
\*   done     the task returned and `resolve` was called
\*   failed   the task threw and `reject` was called
Active == {"ensure", "turn", "upsert"}
\* a drain that takes only a task that returned for settled
SettledWhenDone == {"done"}
Settled == {"done", "failed"}

\* enqueue(key, task): push the wrapped job, then `void this.drain(key)`.  drain
\* runs synchronously up to its first `await job()`: it returns at once when a
\* drain is live for the key; otherwise it marks the key running, shifts the
\* first job and calls it, and the job runs the task up to the task's first
\* await, which is inside ensureThreadRuntime.
enqueue(key) ==
    LET c == Len(callKey) + 1
        pushed == Append(QueueGet(key), c)
    IN  /\ c \in Calls
        /\ callKey' = Append(callKey, key)
        /\ IF DrainBusy(key)
             THEN /\ queues' = MapSet(queues, key, pushed)
                  /\ phase' = Append(phase, "queued")
                  /\ UNCHANGED <<running, draining, started>>
             ELSE LET s == ShiftJob(pushed)
                  IN  /\ running' = running \cup {key}
                      /\ queues' = MapSet(queues, key, s.rest)
                      /\ phase' = [Append(phase, "queued") EXCEPT ![s.job] = "ensure"]
                      /\ draining' = draining \cup {s.job}
                      /\ started' = Append(started, s.job)
        /\ UNCHANGED <<store, ivars, pvars, gvars, hvars, appvars, fvars>>

\* FlintGateway.handleMessage: resolveThreadId, then processMessage.
handleMessage(key) ==
    enqueue(key)

\* FlintGateway.handleThreadMessage: throws "Thread not found." without
\* enqueuing when the store has no record, else processMessage.
handleThreadMessage(key) ==
    /\ MapHas(store, key)
    /\ enqueue(key)

\* ensureThreadRuntime returns: the task goes on to runTurn.  When the session
\* was created by thread/start the record has been upserted on the way.
EnsureOk(c) ==
    /\ c \in DOMAIN phase /\ phase[c] = "ensure"
    /\ phase' = [phase EXCEPT ![c] = "turn"]
    /\ \/ store' = MapSet(store, callKey[c], c)
       \/ /\ MapHas(store, callKey[c])
          /\ UNCHANGED store
    /\ UNCHANGED <<queues, running, draining, callKey, started>>
    /\ UNCHANGED <<ivars, pvars, gvars, hvars, appvars, fvars>>

\* runTurn returns the reply: the task goes on to the final store.upsert.
TurnOk(c) ==
    /\ c \in DOMAIN phase /\ phase[c] = "turn"
    /\ phase' = [phase EXCEPT ![c] = "upsert"]
    /\ UNCHANGED <<queues, running, draining, callKey, started, store>>
    /\ UNCHANGED <<ivars, pvars, gvars, hvars, appvars, fvars>>

\* store.upsert resolves and the task returns its reply: `resolve(await task())`.
UpsertOk(c) ==
    /\ c \in DOMAIN phase /\ phase[c] = "upsert"
    /\ phase' = [phase EXCEPT ![c] = "done"]
    /\ store' = MapSet(store, callKey[c], c)
    /\ UNCHANGED <<queues, running, draining, callKey, started>>
    /\ UNCHANGED <<ivars, pvars, gvars, hvars, appvars, fvars>>

\* Any await of the task throws (spawn, handshake, thread/start, the turn, the
\* write of the store): `catch (error) { reject(error) }`.
TaskThrows(c) ==
    /\ c \in DOMAIN phase /\ phase[c] \in Active
    /\ phase' = [phase EXCEPT ![c] = "failed"]
    /\ UNCHANGED <<queues, running, draining, callKey, started, store>>
    /\ UNCHANGED <<ivars, pvars, gvars, hvars, appvars, fvars>>

\* drain resumes from `await job()` once the job's promise has settled: it takes
\* the next job if the array holds one, else runs its finally block.  The local
\* `queue` is the array held in the map for as long as the drain lives.
drainResume(c) ==
    LET key == callKey[c]
        queue == QueueGet(key)
    IN  /\ c \in draining
        /\ phase[c] \in Settled
        /\ IF Len(queue) > 0
             THEN LET s == ShiftJob(queue)
                  IN  /\ queues' = MapSet(queues, key, s.rest)
                      /\ phase' = [phase EXCEPT ![s.job] = "ensure"]
                      /\ draining' = (draining \ {c}) \cup {s.job}
                      /\ started' = Append(started, s.job)
                      /\ UNCHANGED running
             ELSE /\ running' = running \ {key}
                  /\ queues' = MapDelete(queues, key)
                  /\ draining' = draining \ {c}
                  /\ UNCHANGED <<phase, started>>
        /\ UNCHANGED <<callKey, store, ivars, pvars, gvars, hvars, appvars, fvars>>

QueueIdle ==
    /\ queues = EmptyMap
    /\ running = {}
    /\ draining = {}
    /\ callKey = <<>>
    /\ phase = <<>>
    /\ started = <<>>
    /\ store = EmptyMap

QueueNext ==
    \/ \E key \in ThreadIds : handleMessage(key)
    \/ \E key \in ThreadIds : handleThreadMessage(key)
    \/ \E c \in Calls : EnsureOk(c)
    \/ \E c \in Calls : TurnOk(c)
    \/ \E c \in Calls : UpsertOk(c)
    \/ \E c \in Calls : TaskThrows(c)
    \/ \E c \in Calls : drainResume(c)

\* ====================================================================
\* IdempotencyStore and the POST routes
\* ====================================================================

IdemKeys == {"k1"}
Bodies == {"b1", "b2"}
\* POST /v1/threads.  POST /v1/threads/:threadId runs the same code on the same
\* store with `${threadId}` in place of the route in the fingerprint.
Routes == {"/v1/threads"}
NoKey == "none"
NoResult == [status |-> 0, body |-> 0]
NoResponse == [status |-> 0, body |-> 0, cached |-> FALSE, idempotencyKey |-> NoKey]

\* The fingerprint handed to execute: `/v1/threads:${rawBody}` on the create
\* route, `${threadId}:${rawBody}` on the thread route.
Fingerprint(route, rawBody) == <<route, ":", rawBody>>

\* The 409-shaped result of a fingerprint mismatch.
ConflictResult == [status |-> 409, body |-> "Idempotency key conflict."]

\* What runMessage returns for request r: 200 with the gateway reply and the
\* measured durationMs, or 500 with the formatted error.  Two runs never have
\* to agree, so each run's body is its own.
RunMessageResult(r, status) == [status |-> status, body |-> <<"run", r>>]

\* `now - entry.ts > this.ttlMs`
ExpiredAtTtl(entry, t) == t - entry.ts >= ttlMs
Expired(entry, t) == t - entry.ts > ttlMs

\* cleanup(): drop every completed entry older than the TTL.
cleanup(entries, t) ==
    [k \in {x \in DOMAIN entries : ~Expired(entries[x], t)} |-> entries[k]]

\* `this.inflight.get(key)`: the request whose promise is registered, 0 if none.
InflightIgnored(key) == 0
InflightGet(key) == IF MapHas(inflight, key) THEN inflight[key] ELSE 0

\* `json(result.status, {...result.body, ...(cached ? {cached: true,
\* idempotencyKey} : {idempotencyKey})})`
KeyedResponse(result, cached, key) ==
    [status |-> result.status, body |-> result.body, cached |-> cached, idempotencyKey |-> key]

\* `json(result.status, result.body)`, and the final `result` event of a stream
PlainResponse(result) ==
    [status |-> result.status, body |-> result.body, cached |-> FALSE, idempotencyKey |-> NoKey]

\* A request: its route, idempotency key (header or body field), raw body,
\* whether it asked for text/event-stream, when it arrived, and where its
\* handler stands:
\*   direct     runMessage / handleMessage running outside the store
\*   running    inside execute, its own task in flight
\*   resolved   its task returned and done.set ran; `await promise` not resumed
\*   waiting    inside execute, suspended in `await active`
\*   responded  the response was sent
\* ran: the handler started an agent turn of its own; awaits: the request whose
\* promise it awaits; taskResult: what its task returned; endSeq: how many
\* requests had arrived when its task returned.
NewRequest(route, key, body, sse) ==
    [route |-> route, key |-> key, body |-> body, sse |-> sse, at |-> now,
     st |-> "direct", ran |-> TRUE, awaits |-> 0, taskResult |-> NoResult,
     endSeq |-> 0, response |-> NoResponse]

\* The POST handler up to its first await after the body was read: the
\* streaming branch and the keyless branch run the message directly; otherwise
\* execute(key, fingerprint, runMessage) runs up to its first await (or returns).
\* Bodies that fail to parse or validate are answered 400 (an unknown thread
\* 404) before any of this and leave every variable as it is.
PostMessage(route, key, body, sse) ==
    LET r == Len(reqs) + 1
        new == NewRequest(route, key, body, sse)
        swept == cleanup(done, now)
        fp == Fingerprint(route, body)
    IN  /\ r <= MaxReqs
        /\ IF sse \/ key = NoKey
             THEN /\ reqs' = Append(reqs, new)
                  /\ UNCHANGED <<done, inflight>>
             ELSE /\ done' = swept
                  /\ IF MapHas(swept, key)
                       THEN /\ reqs' = Append(reqs,
                                 [new EXCEPT !.st = "responded", !.ran = FALSE,
                                     !.response =
                                         IF swept[key].fingerprint # fp
                                           THEN KeyedResponse(ConflictResult, TRUE, key)
                                           ELSE KeyedResponse(swept[key].result, TRUE, key)])
                            /\ UNCHANGED inflight
                       ELSE IF InflightGet(key) # 0
                              THEN /\ reqs' = Append(reqs,
                                        [new EXCEPT !.st = "waiting", !.ran = FALSE,
                                                    !.awaits = InflightGet(key)])
                                   /\ UNCHANGED inflight
                              ELSE /\ reqs' = Append(reqs, [new EXCEPT !.st = "running"])
                                   /\ inflight' = MapSet(inflight, key, r)
        /\ UNCHANGED <<now, qvars, pvars, gvars, hvars, appvars, fvars>>

\* runMessage returns.  Inside execute the async wrapper stores the entry with
\* Date.now() and resolves the promise; outside the store the handler answers.
\* runMessage catches every error of the gateway, so the task never rejects.
TaskReturns(r, status) ==
    LET result == RunMessageResult(r, status)
    IN  /\ r \in DOMAIN reqs
        /\ \/ /\ reqs[r].st = "running"
              /\ done' = MapSet(done, reqs[r].key,
                                [ts |-> now,
                                 fingerprint |-> Fingerprint(reqs[r].route, reqs[r].body),
                                 result |-> result])
              /\ reqs' = [reqs EXCEPT ![r].st = "resolved", ![r].taskResult = result,
                                      ![r].endSeq = Len(reqs)]
           \/ /\ reqs[r].st = "direct"
              /\ reqs' = [reqs EXCEPT ![r].st = "responded", ![r].taskResult = result,
                                      ![r].endSeq = Len(reqs),
                                      ![r].response = PlainResponse(result)]
              /\ UNCHANGED done
        /\ UNCHANGED <<inflight, now, qvars, pvars, gvars, hvars, appvars, fvars>>

\* The caller that registered the promise resumes from `await promise`:
\* `return {cached: false, result}` and `finally { this.inflight.delete(key) }`.
OwnerReturns(r) ==
    /\ r \in DOMAIN reqs
    /\ reqs[r].st = "resolved"
    /\ inflight' = MapDelete(inflight, reqs[r].key)
    /\ reqs' = [reqs EXCEPT ![r].st = "responded",
                            ![r].response = KeyedResponse(reqs[r].taskResult, FALSE, reqs[r].key)]
    /\ UNCHANGED <<done, now, qvars, pvars, gvars, hvars, appvars, fvars>>

\* A caller suspended in `await active` resumes with the promise's result:
\* `return {cached: true, result}`.
WaiterReturns(r) ==
    /\ r \in DOMAIN reqs
    /\ reqs[r].st = "waiting"
    /\ reqs[reqs[r].awaits].st \in {"resolved", "responded"}
    /\ reqs' = [reqs EXCEPT ![r].st = "responded",
                            ![r].response =
                                KeyedResponse(reqs[reqs[r].awaits].taskResult, TRUE, reqs[r].key)]
    /\ UNCHANGED <<done, inflight, now, qvars, pvars, gvars, hvars, appvars, fvars>>

\* Time passes.
Tick ==
    /\ now < MaxTime
    /\ now' = now + 1
    /\ UNCHANGED <<done, inflight, reqs, qvars, pvars, gvars, hvars, appvars, fvars>>

\* ====================================================================
\* AppServerClient: the state of a constructed client
\* ====================================================================
\* no Error: what a call that has not failed carries, and what nothing thrown is
\* `undefined`: no record, no runtime, an absent field
Undefined == "undefined"

\* no webhook request has been received
WebhookIdle ==
    /\ seenEvents = EmptyMap
    /\ deliveries = <<>>
    /\ wnow = 0

\* no function under test has been called
NoCall ==
    /\ input = <<>>
    /\ output = <<>>

\* an absent number (a time, a provider thread id, a policy field)
Unset == -1

\* an absent list
NoList == <<Undefined>>

\* store.get(threadId) and runtimes.get(threadId) finding nothing
NoRecord == [provider |-> Undefined]
NoRuntime == [client |-> 0]

\* no processMessage task is running
NoTask == [pc |-> "idle"]

\* the gateway as constructed with its defaults: nothing stored, nothing running
DailyPolicy == [dailyAtHour |-> 1, idleMinutes |-> Unset]
DefaultOptions == [codexExecutionError |-> FALSE, defaultPolicy |-> DailyPolicy]

RegistryIdle ==
    /\ threads = NoRecord
    /\ runtimes = NoRuntime
    /\ clients = <<>>
    /\ clock = 0
    /\ task = NoTask
    /\ handled = 0
    /\ options = DefaultOptions
    /\ stopped = "running"
    /\ interrupts = {}

NoError == [message |-> "none", code |-> 0, tail |-> <<>>]

NoAgent == [turn |-> "none", answered |-> {}, started |-> FALSE, deltas |-> 0,
            approvals |-> 0, broken |-> FALSE, emitted |-> <<>>]

PeerIdle ==
    /\ child = "none"
    /\ exitCode = 0
    /\ proc = "null"
    /\ stdin = "null"
    /\ isClosing = FALSE
    /\ initialized = FALSE
    /\ threadId = 0
    /\ currentTurnId = 0
    /\ nextId = 1
    /\ pendingRequests = {}
    /\ calls = <<>>
    /\ notificationListeners = {}
    /\ stderrHistory = <<>>
    /\ toChild = <<>>
    /\ fromChild = <<>>
    /\ stderrPipe = <<>>
    /\ agent = NoAgent
    /\ serverRequests = <<>>
    /\ watcher = "off"
    /\ pc = "new"
    /\ events = <<>>
    /\ turnDone = FALSE
    /\ stream = <<>>
    /\ timer = FALSE
    /\ timedOut = FALSE
    /\ expiries = 0
    /\ responseText = <<>>
    /\ terminalError = FALSE
    /\ thrown = NoError
    /\ caller = "connected"
    /\ writeFailed = FALSE

IdemIdle ==
    /\ done = EmptyMap
    /\ inflight = EmptyMap
    /\ now = 0
    /\ reqs = <<>>

ServerIdle ==
    /\ buffer = <<>>
    /\ threadState = [currentTurnId |-> 0, abortController |-> 0]
    /\ turnRuns = <<>>
    /\ sent = <<>>

IdemInit == IdemIdle /\ QueueIdle /\ PeerIdle /\ ServerIdle /\ RegistryIdle /\ WebhookIdle /\ NoCall

IdemNext ==
    \/ \E route \in Routes, key \in IdemKeys \cup {NoKey}, body \in Bodies, sse \in BOOLEAN :
           PostMessage(route, key, body, sse)
    \/ \E r \in 1..MaxReqs, status \in {200, 500} : TaskReturns(r, status)
    \/ \E r \in 1..MaxReqs : OwnerReturns(r)
    \/ \E r \in 1..MaxReqs : WaiterReturns(r)
    \/ Tick

IdemSpec == IdemInit /\ [][IdemNext]_vars

QueueInit ==
    QueueIdle /\ IdemIdle /\ PeerIdle /\ ServerIdle /\ RegistryIdle /\ WebhookIdle /\ NoCall

QueueSpec == QueueInit /\ [][QueueNext]_vars

\* ====================================================================
\* AppServerClient: JSON-RPC lines, errors and the pure helpers
\* ====================================================================
\* lines the child's stdout pipe holds before the child blocks
MaxPipe == 1
\* item/agentMessage/delta notifications the child emits in a turn
MaxDeltas == 2
\* server requests the child makes in a turn
MaxApprovals == 1
\* expiries of the inactivity timer in a turn
MaxExpiries == 1

\* how many lines a dying child may leave on stderr
StderrBursts == {0, 1, 9}
ExitCodes == {0, 1}

\* pushStderrLine keeps this many lines
StderrHistoryMax == 60
\* stderrTail(maxLines = 8)
StderrTailDefault == 8

ApprovalMethods == {"item/commandExecution/requestApproval", "item/fileChange/requestApproval"}
ServerRequestMethods == ApprovalMethods \cup {"item/tool/requestUserInput"}

\* a line with id and method
JsonRpcRequest(id, method) == [kind |-> "request", id |-> id, method |-> method, arg |-> "none"]
\* a line with id and no method; arg is "result" or "error"
JsonRpcResponse(id, arg) == [kind |-> "response", id |-> id, method |-> "none", arg |-> arg]
\* a line with a method and no id
JsonRpcNotification(method, arg) ==
    [kind |-> "notification", id |-> 0, method |-> method, arg |-> arg]
\* a line JSON.parse rejects
BrokenLine == [kind |-> "broken", id |-> 0, method |-> "none", arg |-> "none"]

NotStartedError == [message |-> "App server not started", code |-> 0, tail |-> <<>>]
ResponseError == [message |-> "response.error.message", code |-> 0, tail |-> <<>>]
NoActivityError ==
    [message |-> "Turn interrupted: no agent activity for 120s.", code |-> 0, tail |-> <<>>]
TerminalError == [message |-> "terminalError", code |-> 0, tail |-> <<>>]
WriteError == [message |-> "stream write failed", code |-> 0, tail |-> <<>>]
\* `App server exited with code ${exitCode}`, then "Recent stderr:" and the
\* tail when the tail is not empty
ExitError(code, tail) ==
    [message |-> "App server exited with code", code |-> code, tail |-> tail]

AgentEvent(type, delta) == [type |-> type, delta |-> delta]

\* Array.prototype.slice(-n)
SliceLast(arr, n) == SubSeq(arr, IF Len(arr) > n THEN Len(arr) - n + 1 ELSE 1, Len(arr))

\* the first lines instead of the last
StderrHead(maxLines) ==
    SubSeq(stderrHistory, 1,
           IF Len(stderrHistory) > maxLines THEN maxLines ELSE Len(stderrHistory))

stderrTail(maxLines) == SliceLast(stderrHistory, maxLines)

pushStderrLine(history, line) ==
    LET pushed == Append(history, line)
    IN  IF Len(pushed) > StderrHistoryMax THEN Tail(pushed) ELSE pushed

RECURSIVE pushStderrLines(_, _)
pushStderrLines(history, lines) ==
    IF lines = <<>> THEN history
    ELSE pushStderrLines(pushStderrLine(history, Head(lines)), Tail(lines))

\* translateNotification: the events a notification becomes
translateNotification(n) ==
    CASE n.method = "item/agentMessage/delta" -> <<AgentEvent("text", n.arg)>>
      [] n.method = "turn/completed" ->
            IF n.arg = "failed" THEN <<AgentEvent("error", "none")>>
            ELSE <<AgentEvent("done", "none")>>
      [] n.method \in ApprovalMethods -> <<AgentEvent("activity", "none")>>
      [] OTHER -> <<>>

\* translateNotification: what it leaves in this.currentTurnId
TurnIdAfter(n) ==
    CASE n.method = "turn/started" -> 1
      [] n.method = "turn/completed" -> 0
      [] OTHER -> currentTurnId

\* a listener that drops the approval beats
DeafListener(n) ==
    /\ events' = (IF n.method \in ApprovalMethods THEN events
                  ELSE events \o translateNotification(n))
    /\ currentTurnId' = TurnIdAfter(n)
    /\ turnDone' = (turnDone \/ n.method = "turn/completed")

\* a listener that puts what it translates at the head of the queue
ListenerUnshifts(n) ==
    /\ events' = translateNotification(n) \o events
    /\ currentTurnId' = TurnIdAfter(n)
    /\ turnDone' = (turnDone \/ n.method = "turn/completed")

\* prompt(): the listener pushed on notificationListeners
listener(n) ==
    /\ events' = events \o translateNotification(n)
    /\ currentTurnId' = TurnIdAfter(n)
    /\ turnDone' = (turnDone \/ n.method = "turn/completed")

\* `for (const listener of this.notificationListeners) listener(n)`
NotifyListeners(n) ==
    IF notificationListeners = {} THEN UNCHANGED <<events, currentTurnId, turnDone>>
    ELSE listener(n)

\* a request() that does not advance nextId
RequestReusesId(method) ==
    /\ nextId' = nextId
    /\ pendingRequests' = pendingRequests \cup {nextId}
    /\ calls' = Append(calls, [method |-> method, state |-> "pending", error |-> NoError])
    /\ toChild' = Append(toChild, JsonRpcRequest(nextId, method))

\* request(): the part after the `!this.stdin` check
request(method) ==
    /\ nextId' = nextId + 1
    /\ pendingRequests' = pendingRequests \cup {nextId}
    /\ calls' = Append(calls, [method |-> method, state |-> "pending", error |-> NoError])
    /\ toChild' = Append(toChild, JsonRpcRequest(nextId, method))

sendJsonRpcResponse(id, arg) ==
    toChild' = IF stdin = "null" THEN toChild ELSE Append(toChild, JsonRpcResponse(id, arg))

Settle(id, state, error) == [calls EXCEPT ![id].state = state, ![id].error = error]

Unsettled == {id \in DOMAIN calls : calls[id].state = "pending"}

\* ====================================================================
\* AppServerClient and FlintGateway.runTurn: the steps
\* ====================================================================
\* the id request() gave to the one call of this method
CallOf(method) == CHOOSE id \in DOMAIN calls : calls[id].method = method

\* start(), up to `await this.request("initialize")`
start ==
    /\ pc = "new"
    /\ isClosing' = FALSE
    /\ child' = "alive"
    /\ proc' = "p"
    /\ stdin' = "open"
    /\ watcher' = "waiting"
    /\ request("initialize")
    /\ pc' = "initialize"
    /\ UNCHANGED <<exitCode, initialized, threadId, currentTurnId, notificationListeners,
                   stderrHistory, fromChild, stderrPipe, agent, serverRequests, events,
                   turnDone, stream, timer, timedOut, expiries, responseText,
                   terminalError, thrown>>
    /\ UNCHANGED <<qvars, ivars, gvars, svars, hvars, appvars, fvars>>

\* a start() that does not wait for the answer to `initialize`
InitializeUnawaited == TRUE

\* `await this.request("initialize")` has let start() go on
InitializeAnswered == calls[CallOf("initialize")].state # "pending"

\* start(), after `await this.request("initialize")`
startResume ==
    /\ pc = "initialize"
    /\ InitializeAnswered
    /\ IF calls[CallOf("initialize")].state = "rejected"
       THEN /\ pc' = "threw"
            /\ thrown' = calls[CallOf("initialize")].error
            /\ UNCHANGED <<toChild, initialized>>
       ELSE IF stdin = "null"
       THEN /\ pc' = "threw"
            /\ thrown' = NotStartedError
            /\ UNCHANGED <<toChild, initialized>>
       ELSE /\ toChild' = Append(toChild, JsonRpcNotification("initialized", "none"))
            /\ initialized' = TRUE
            /\ pc' = "started"
            /\ UNCHANGED thrown
    /\ UNCHANGED <<child, exitCode, proc, stdin, isClosing, threadId, currentTurnId,
                   nextId, pendingRequests, calls, notificationListeners, stderrHistory,
                   fromChild, stderrPipe, agent, serverRequests, watcher, events, turnDone,
                   stream, timer, timedOut, expiries, responseText, terminalError>>
    /\ UNCHANGED <<qvars, ivars, gvars, svars, hvars, appvars, fvars>>

\* createThread(), up to `await this.request("thread/start")`
createThread ==
    /\ pc = "started"
    /\ IF stdin = "null"
       THEN /\ pc' = "threw"
            /\ thrown' = NotStartedError
            /\ UNCHANGED <<nextId, pendingRequests, calls, toChild>>
       ELSE /\ request("thread/start")
            /\ pc' = "thread/start"
            /\ UNCHANGED thrown
    /\ UNCHANGED <<child, exitCode, proc, stdin, isClosing, initialized, threadId,
                   currentTurnId, notificationListeners, stderrHistory, fromChild,
                   stderrPipe, agent, serverRequests, watcher, events, turnDone, stream,
                   timer, timedOut, expiries, responseText, terminalError>>
    /\ UNCHANGED <<qvars, ivars, gvars, svars, hvars, appvars, fvars>>

\* createThread(), after the await
createThreadResume ==
    /\ pc = "thread/start"
    /\ calls[CallOf("thread/start")].state # "pending"
    /\ IF calls[CallOf("thread/start")].state = "rejected"
       THEN /\ pc' = "threw"
            /\ thrown' = calls[CallOf("thread/start")].error
            /\ UNCHANGED threadId
       ELSE /\ threadId' = 1
            /\ pc' = "threadReady"
            /\ UNCHANGED thrown
    /\ UNCHANGED <<child, exitCode, proc, stdin, isClosing, initialized, currentTurnId,
                   nextId, pendingRequests, calls, notificationListeners, stderrHistory,
                   wvars, events, turnDone, stream, timer, timedOut, expiries,
                   responseText, terminalError>>
    /\ UNCHANGED <<qvars, ivars, gvars, svars, hvars, appvars, fvars>>

\* runTurn(): resetTimer(), then prompt() up to `await this.request("turn/start")`.
\* A client whose threadId is null here has been closed, and the createThread()
\* prompt() then calls throws at once.
runTurn ==
    /\ pc = "threadReady"
    /\ IF threadId = 0 \/ stdin = "null"
       THEN /\ pc' = "threw"
            /\ thrown' = NotStartedError
            /\ UNCHANGED <<nextId, pendingRequests, calls, toChild, notificationListeners, timer>>
       ELSE /\ timer' = TRUE
            /\ notificationListeners' = notificationListeners \cup {"prompt"}
            /\ request("turn/start")
            /\ pc' = "turn/start"
            /\ UNCHANGED thrown
    /\ UNCHANGED <<child, exitCode, proc, stdin, isClosing, initialized, threadId,
                   currentTurnId, stderrHistory, fromChild, stderrPipe, agent,
                   serverRequests, watcher, events, turnDone, stream, timedOut, expiries,
                   responseText, terminalError>>
    /\ UNCHANGED <<qvars, ivars, gvars, svars, hvars, appvars, fvars>>

\* prompt(), after `await this.request("turn/start")`: into the loop, or out
\* through `finally` and runTurn's `finally`
promptResume ==
    /\ pc = "turn/start"
    /\ calls[CallOf("turn/start")].state # "pending"
    /\ IF calls[CallOf("turn/start")].state = "rejected"
       THEN /\ notificationListeners' = notificationListeners \ {"prompt"}
            /\ timer' = FALSE
            /\ pc' = "threw"
            /\ thrown' = calls[CallOf("turn/start")].error
       ELSE /\ pc' = "streaming"
            /\ UNCHANGED <<notificationListeners, timer, thrown>>
    /\ UNCHANGED <<child, exitCode, proc, stdin, isClosing, initialized, threadId,
                   currentTurnId, nextId, pendingRequests, calls, stderrHistory, wvars,
                   events, turnDone, stream, timedOut, expiries, responseText,
                   terminalError>>
    /\ UNCHANGED <<qvars, ivars, gvars, svars, hvars, appvars, fvars>>

\* an onEvent that lets a failed write reach runTurn's loop
WriteFailureThrown(c) == c = "gone"

\* streamGatewaySSE's onEvent awaits stream.writeSSE, and hono's StreamingApi
\* catches a failed write itself: onEvent does not throw when the caller is gone
onEventThrows(c) == FALSE

\* prompt() yields one event and runTurn's loop body handles it: the timer is
\* reset and onEvent awaited; were it to throw, the loop would be left through
\* prompt()'s and runTurn's `finally`
promptYield ==
    /\ pc = "streaming"
    /\ events # <<>>
    /\ LET event == Head(events)
       IN  /\ events' = Tail(events)
           /\ stream' = Append(stream, event)
           /\ writeFailed' = (writeFailed \/ caller = "gone")
           /\ IF onEventThrows(caller)
                THEN /\ notificationListeners' = notificationListeners \ {"prompt"}
                     /\ timer' = FALSE
                     /\ pc' = "threw"
                     /\ thrown' = WriteError
                     /\ UNCHANGED <<responseText, terminalError>>
                ELSE /\ timer' = TRUE
                     /\ responseText' = (IF event.type = "text"
                                         THEN Append(responseText, event.delta)
                                         ELSE responseText)
                     /\ terminalError' = (terminalError \/ event.type = "error")
                     /\ UNCHANGED <<notificationListeners, pc, thrown>>
    /\ UNCHANGED <<child, exitCode, proc, stdin, isClosing, initialized, threadId,
                   currentTurnId, nextId, pendingRequests, calls, stderrHistory, wvars,
                   turnDone, timedOut, expiries, caller>>
    /\ UNCHANGED <<qvars, ivars, gvars, hvars, appvars, fvars>>

\* the caller of the streaming request goes away while its turn is streaming
callerDisconnects ==
    /\ pc = "streaming"
    /\ caller = "connected"
    /\ caller' = "gone"
    /\ UNCHANGED <<cvars, wvars, tvars, writeFailed>>
    /\ UNCHANGED <<qvars, ivars, gvars, hvars, appvars, fvars>>

\* prompt() returns (done, nothing left to yield); runTurn clears the timer and
\* returns the reply or throws
promptFinish ==
    /\ pc = "streaming"
    /\ events = <<>>
    /\ turnDone
    /\ notificationListeners' = notificationListeners \ {"prompt"}
    /\ timer' = FALSE
    /\ IF timedOut THEN pc' = "threw" /\ thrown' = NoActivityError
       ELSE IF terminalError THEN pc' = "threw" /\ thrown' = TerminalError
       ELSE pc' = "returned" /\ UNCHANGED thrown
    /\ UNCHANGED <<child, exitCode, proc, stdin, isClosing, initialized, threadId,
                   currentTurnId, nextId, pendingRequests, calls, stderrHistory, wvars,
                   events, turnDone, stream, timedOut, expiries, responseText,
                   terminalError>>
    /\ UNCHANGED <<qvars, ivars, gvars, svars, hvars, appvars, fvars>>

\* interrupt(), up to its await
interrupt ==
    IF threadId = 0 \/ currentTurnId = 0 \/ stdin = "null"
    THEN UNCHANGED <<nextId, pendingRequests, calls, toChild>>
    ELSE request("turn/interrupt")

\* runTurn's timer callback: 120 s have passed since the last resetTimer()
timerFires ==
    /\ timer
    /\ expiries < MaxExpiries
    /\ expiries' = expiries + 1
    /\ timer' = FALSE
    /\ timedOut' = TRUE
    /\ interrupt
    /\ UNCHANGED <<child, exitCode, proc, stdin, isClosing, initialized, threadId,
                   currentTurnId, notificationListeners, stderrHistory, fromChild,
                   stderrPipe, agent, serverRequests, watcher, pc, events, turnDone,
                   stream, responseText, terminalError, thrown>>
    /\ UNCHANGED <<qvars, ivars, gvars, svars, hvars, appvars, fvars>>

\* close(); proc.kill() ends the child
close ==
    /\ isClosing' = TRUE
    /\ IF proc # "null"
       THEN /\ proc' = "null"
            /\ stdin' = "null"
            /\ IF child = "alive"
               THEN child' = "exited" /\ exitCode' \in ExitCodes
               ELSE UNCHANGED <<child, exitCode>>
       ELSE UNCHANGED <<proc, stdin, child, exitCode>>
    /\ initialized' = FALSE
    /\ threadId' = 0
    /\ currentTurnId' = 0
    /\ UNCHANGED <<nextId, pendingRequests, calls, notificationListeners, stderrHistory,
                   wvars, tvars>>
    /\ UNCHANGED <<qvars, ivars, gvars, svars, hvars, appvars, fvars>>

\* handleServerRequest
handleServerRequest(msg) ==
    IF msg.method \in ApprovalMethods
    THEN /\ sendJsonRpcResponse(msg.id, "result")
         /\ NotifyListeners(JsonRpcNotification(msg.method, "none"))
    ELSE /\ sendJsonRpcResponse(msg.id, "error")
         /\ UNCHANGED <<events, currentTurnId, turnDone>>

\* handleMessage
clientHandleMessage(msg) ==
    CASE msg.kind = "broken" ->
            UNCHANGED <<pendingRequests, calls, toChild, events, currentTurnId, turnDone>>
      [] msg.kind = "request" ->
            /\ handleServerRequest(msg)
            /\ UNCHANGED <<pendingRequests, calls>>
      [] msg.kind = "response" ->
            /\ IF msg.id \in pendingRequests
               THEN /\ pendingRequests' = pendingRequests \ {msg.id}
                    /\ calls' = (IF msg.arg = "error"
                                 THEN Settle(msg.id, "rejected", ResponseError)
                                 ELSE Settle(msg.id, "resolved", NoError))
               ELSE UNCHANGED <<pendingRequests, calls>>
            /\ UNCHANGED <<toChild, events, currentTurnId, turnDone>>
      [] msg.kind = "notification" ->
            /\ NotifyListeners(msg)
            /\ UNCHANGED <<pendingRequests, calls, toChild>>

\* readStdout: one line of the child's output
readStdout ==
    /\ fromChild # <<>>
    /\ fromChild' = Tail(fromChild)
    /\ clientHandleMessage(Head(fromChild))
    /\ serverRequests' = (IF Head(fromChild).kind = "request"
                           THEN Append(serverRequests,
                                       [id |-> Head(fromChild).id,
                                        method |-> Head(fromChild).method,
                                        stdin |-> stdin,
                                        listeners |-> notificationListeners])
                           ELSE serverRequests)
    /\ UNCHANGED <<child, exitCode, proc, stdin, isClosing, initialized, threadId, nextId,
                   notificationListeners, stderrHistory, stderrPipe, agent, watcher, pc,
                   stream, timer, timedOut, expiries, responseText, terminalError, thrown>>
    /\ UNCHANGED <<qvars, ivars, gvars, svars, hvars, appvars, fvars>>

\* readStderr: one chunk, holding every line the child has written so far
readStderr ==
    /\ stderrPipe # <<>>
    /\ stderrHistory' = pushStderrLines(stderrHistory, stderrPipe)
    /\ stderrPipe' = <<>>
    /\ UNCHANGED <<child, exitCode, proc, stdin, isClosing, initialized, threadId,
                   currentTurnId, nextId, pendingRequests, calls, notificationListeners,
                   toChild, fromChild, agent, watcher, serverRequests, tvars>>
    /\ UNCHANGED <<qvars, ivars, gvars, svars, hvars, appvars, fvars>>

\* watchProcessExit, after `await proc.exited`
watchProcessExit ==
    /\ watcher = "waiting"
    /\ child = "exited"
    /\ watcher' = "done"
    /\ IF proc # "p" \/ isClosing
       THEN UNCHANGED <<pendingRequests, calls>>
       ELSE /\ calls' = [id \in DOMAIN calls |->
                           IF id \in pendingRequests
                           THEN [calls[id] EXCEPT !.state = "rejected",
                                     !.error = ExitError(exitCode, stderrTail(StderrTailDefault))]
                           ELSE calls[id]]
            /\ pendingRequests' = {}
    /\ UNCHANGED <<child, exitCode, proc, stdin, isClosing, initialized, threadId,
                   currentTurnId, nextId, notificationListeners, stderrHistory, toChild,
                   fromChild, stderrPipe, agent, serverRequests, tvars>>
    /\ UNCHANGED <<qvars, ivars, gvars, svars, hvars, appvars, fvars>>

\* ====================================================================
\* The agent child
\* ====================================================================
Emit(msg) ==
    /\ child = "alive"
    /\ Len(fromChild) < MaxPipe
    /\ fromChild' = Append(fromChild, msg)

AgentRest == <<child, exitCode, proc, stdin, isClosing, initialized, threadId, currentTurnId,
               nextId, pendingRequests, calls, notificationListeners, stderrHistory, toChild,
               watcher, serverRequests, tvars>>

\* the child answers a request it has read
AgentRespond(i, arg) ==
    /\ toChild[i].kind = "request"
    /\ toChild[i].id \notin agent.answered
    /\ Emit(JsonRpcResponse(toChild[i].id, arg))
    /\ agent' = [agent EXCEPT !.answered = @ \cup {toChild[i].id},
                              !.turn = IF toChild[i].method = "turn/start" /\ arg = "result"
                                       THEN "running" ELSE @]
    /\ UNCHANGED <<AgentRest, stderrPipe>>
    /\ UNCHANGED <<qvars, ivars, gvars, svars, hvars, appvars, fvars>>

AgentTurnStarted ==
    /\ agent.turn = "running"
    /\ ~agent.started
    /\ Emit(JsonRpcNotification("turn/started", "none"))
    /\ agent' = [agent EXCEPT !.started = TRUE]
    /\ UNCHANGED <<AgentRest, stderrPipe>>
    /\ UNCHANGED <<qvars, ivars, gvars, svars, hvars, appvars, fvars>>

AgentDelta ==
    /\ agent.turn = "running"
    /\ agent.started
    /\ agent.deltas < MaxDeltas
    /\ Emit(JsonRpcNotification("item/agentMessage/delta", agent.deltas + 1))
    /\ agent' = [agent EXCEPT !.deltas = @ + 1,
                              !.emitted = Append(@, JsonRpcNotification(
                                              "item/agentMessage/delta", agent.deltas + 1))]
    /\ UNCHANGED <<AgentRest, stderrPipe>>
    /\ UNCHANGED <<qvars, ivars, gvars, svars, hvars, appvars, fvars>>

AgentServerRequest(method) ==
    /\ agent.turn = "running"
    /\ agent.started
    /\ agent.approvals < MaxApprovals
    /\ Emit(JsonRpcRequest(100 + agent.approvals, method))
    /\ agent' = [agent EXCEPT !.approvals = @ + 1,
                              !.emitted = Append(@, JsonRpcRequest(100 + agent.approvals, method))]
    /\ UNCHANGED <<AgentRest, stderrPipe>>
    /\ UNCHANGED <<qvars, ivars, gvars, svars, hvars, appvars, fvars>>

AgentTurnCompleted(status) ==
    /\ agent.turn = "running"
    /\ Emit(JsonRpcNotification("turn/completed", status))
    /\ agent' = [agent EXCEPT !.turn = "completed",
                              !.emitted = Append(@, JsonRpcNotification("turn/completed", status))]
    /\ UNCHANGED <<AgentRest, stderrPipe>>
    /\ UNCHANGED <<qvars, ivars, gvars, svars, hvars, appvars, fvars>>

\* the child's framing breaks: a line that is not JSON
AgentBrokenLine ==
    /\ agent.turn = "running"
    /\ agent.started
    /\ ~agent.broken
    /\ Emit(BrokenLine)
    /\ agent' = [agent EXCEPT !.broken = TRUE]
    /\ UNCHANGED <<AgentRest, stderrPipe>>
    /\ UNCHANGED <<qvars, ivars, gvars, svars, hvars, appvars, fvars>>

\* the child dies, leaving its last words on stderr
AgentExit(code, n) ==
    /\ child = "alive"
    /\ child' = "exited"
    /\ exitCode' = code
    /\ stderrPipe' = stderrPipe \o [i \in 1..n |-> i]
    /\ UNCHANGED <<proc, stdin, isClosing, initialized, threadId, currentTurnId, nextId,
                   pendingRequests, calls, notificationListeners, stderrHistory, toChild,
                   fromChild, agent, serverRequests, watcher, tvars>>
    /\ UNCHANGED <<qvars, ivars, gvars, svars, hvars, appvars, fvars>>

\* ====================================================================
\* The client with its child
\* ====================================================================
ClientSteps ==
    \/ startResume
    \/ createThread
    \/ createThreadResume
    \/ runTurn
    \/ promptResume
    \/ promptYield
    \/ promptFinish
    \/ timerFires
    \/ readStdout
    \/ readStderr
    \/ watchProcessExit

PeerNext ==
    \/ start
    \/ startResume
    \/ createThread
    \/ createThreadResume
    \/ runTurn
    \/ promptResume
    \/ promptYield
    \/ promptFinish
    \/ timerFires
    \/ close
    \/ readStdout
    \/ readStderr
    \/ watchProcessExit
    \/ \E i \in DOMAIN toChild : \E arg \in {"result", "error"} : AgentRespond(i, arg)
    \/ AgentTurnStarted
    \/ AgentDelta
    \/ \E method \in ServerRequestMethods : AgentServerRequest(method)
    \/ \E status \in {"completed", "failed"} : AgentTurnCompleted(status)
    \/ AgentBrokenLine
    \/ \E code \in ExitCodes : \E n \in StderrBursts : AgentExit(code, n)

PeerInit ==
    PeerIdle /\ ServerIdle /\ QueueIdle /\ IdemIdle /\ RegistryIdle /\ WebhookIdle /\ NoCall

PeerSpec == PeerInit /\ [][PeerNext]_vars

\* the client's own steps are taken when they can be; the child and the
\* caller of start() and close() owe nothing
PeerFairSpec == PeerSpec /\ WF_vars(ClientSteps)

\* the peer driven by a streaming request whose caller may go away
StreamNext ==
    \/ PeerNext
    \/ callerDisconnects

StreamSpec == PeerInit /\ [][StreamNext]_vars

\* ====================================================================
\* FlintGateway: the runtime registry, the thread store and session resets,
\* for the messages of one threadId (the queue runs them one at a time)
\* ====================================================================

MaxMessages == 2
MaxClock == 2
TicksPerDay == 2

BUILTIN_PROVIDER_HINTS == {"claude", "pi", "codex"}
defaultProvider == "claude"
DefaultModel == "m-default"
OtherModel == "m-other"
Models == {DefaultModel, OtherModel}
defaultMcpProfileIds == <<"a">>
resetTriggers == {"/new", "/reset"}

\* message.text, as its whitespace-separated tokens
Texts == {<<"hi">>, <<"/reset">>, <<"/new", "codex">>, <<"/new", "m-other">>}

\* message.provider and message.mcpProfileIds as callers send them
Messages ==
    [text : Texts,
     provider : {Undefined, "codex"},
     mcpProfileIds : {NoList, <<"b", "b">>}]

\* ResolvedSessionResetPolicy: the default (daily) one and an idle one
IdlePolicy == [dailyAtHour |-> Unset, idleMinutes |-> 1]
Policies == {DailyPolicy, IdlePolicy}

\* what the agent's errors can say: an invalid-model error names the model that
\* was asked for (one that names the default model is like any other error)
Errors ==
    {[kind |-> k, model |-> Undefined] : k \in {"other", "exit"}}
        \cup {[kind |-> "invalid_model", model |-> OtherModel]}
OtherError == [kind |-> "other", model |-> Undefined]

\* a ?? b on lists
Coalesce(a, b) == IF a # NoList THEN a ELSE b

\* a || b on strings, "" and undefined being falsy
OrElse(a, b) == IF a # Undefined /\ a # "" THEN a ELSE b

\* the tokens of the model that trim() and toLowerCase() change, and what they become
TrimmedLowered ==
    {<<" Telegram ", "telegram">>, <<"Peer-1", "peer-1">>, <<"T-9", "t-9">>, <<"  ", "">>}

\* `(value ?? "").trim().toLowerCase()`
normalizeToken(value) ==
    IF value = Undefined THEN ""
    ELSE IF \E p \in TrimmedLowered : p[1] = value
    THEN (CHOOSE p \in TrimmedLowered : p[1] = value)[2]
    ELSE value

RECURSIVE Dedupe(_, _)
Dedupe(ids, seen) ==
    IF ids = <<>> THEN <<>>
    ELSE IF Head(ids) = "" \/ Head(ids) \in seen THEN Dedupe(Tail(ids), seen)
    ELSE <<Head(ids)>> \o Dedupe(Tail(ids), seen \cup {Head(ids)})

normalizeMcpProfileIds(ids) == IF ids = NoList THEN <<>> ELSE Dedupe(ids, {})

\* a comparison that looks at the lengths only
McpProfileCountsEqual(left, right) == Len(left) = Len(right)

mcpProfileIdsEqual(left, right) ==
    /\ Len(left) = Len(right)
    /\ \A i \in 1..Len(left) : left[i] = right[i]

resolveProviderHints(record, message) ==
    BUILTIN_PROVIDER_HINTS
        \cup {defaultProvider}
        \cup (IF record # NoRecord /\ record.provider # "" THEN {record.provider} ELSE {})
        \cup (IF message.provider # Undefined THEN {message.provider} ELSE {})

\* parseNewSessionTarget for a token without "/": a provider name, else a model
parseNewSessionTarget(token, providerHints) ==
    IF token \in providerHints
    THEN [provider |-> token, model |-> Undefined]
    ELSE [provider |-> Undefined, model |-> token]

NotTriggered ==
    [triggered |-> FALSE, providerOverride |-> Undefined, modelOverride |-> Undefined]

parseResetCommand(text, providerHints) ==
    IF Head(text) \notin resetTriggers THEN NotTriggered
    ELSE IF Head(text) = "/new" /\ Len(text) > 1
    THEN LET selection == parseNewSessionTarget(text[2], providerHints)
         IN [triggered |-> TRUE, providerOverride |-> selection.provider,
             modelOverride |-> selection.model]
    ELSE [triggered |-> TRUE, providerOverride |-> Undefined, modelOverride |-> Undefined]

\* the latest tick at or before nowMs that is at the policy's hour
resolveLatestDailyBoundary(nowMs, atHour) == nowMs - ((nowMs - atHour) % TicksPerDay)

\* an updatedAt that Date.parse does not understand
InvalidDate == -2

\* an evaluation that lets a record expire for being newer than the idle boundary
ExpiresWhenNewer(updatedAt, nowMs, policy) ==
    IF updatedAt = Unset THEN Undefined
    ELSE IF updatedAt = InvalidDate THEN "daily"
    ELSE IF /\ policy.dailyAtHour # Unset
            /\ updatedAt < resolveLatestDailyBoundary(nowMs, policy.dailyAtHour)
    THEN "daily"
    ELSE IF policy.idleMinutes # Unset /\ updatedAt > nowMs - policy.idleMinutes
    THEN "idle"
    ELSE Undefined

evaluateSessionReset(updatedAt, nowMs, policy) ==
    IF updatedAt = Unset THEN Undefined
    ELSE IF updatedAt = InvalidDate THEN "daily"
    ELSE IF /\ policy.dailyAtHour # Unset
            /\ updatedAt < resolveLatestDailyBoundary(nowMs, policy.dailyAtHour)
    THEN "daily"
    ELSE IF policy.idleMinutes # Unset /\ updatedAt < nowMs - policy.idleMinutes
    THEN "idle"
    ELSE Undefined

isInvalidModelError(error, requestedModel) ==
    error.kind = "invalid_model" /\ error.model = requestedModel

shouldFallbackToDefaultModel(error, requestedModel) ==
    IF requestedModel = Undefined THEN FALSE
    ELSE IF requestedModel = DefaultModel THEN FALSE
    ELSE isInvalidModelError(error, requestedModel)

\* client.close() on client c
CloseClient(cs, c) == [cs EXCEPT ![c].state = "closed"]

\* resetRuntimeForFreshSession: what it leaves of the clients
resetRuntimeForFreshSession ==
    IF runtimes = NoRuntime THEN clients ELSE CloseClient(clients, runtimes.client)

\* a record as the gateway of an earlier run left it in the store file
LoadedRecord(provider) ==
    [provider |-> provider, providerThreadId |-> 0, model |-> OtherModel,
     mcpProfileIds |-> NoList, createdAt |-> 0, updatedAt |-> 0]

\* Boolean(resetReason) that is never true
NeverForced(resetReason) == FALSE

\* `forceNewSession: Boolean(resetReason)`
ForceNewSession(resetReason) == resetReason # Undefined

\* the options processMessage gives ensureThreadRuntime inside its `try`
TryOptions(command, resetReason) ==
    [forceNewSession |-> ForceNewSession(resetReason),
     providerOverride |-> command.providerOverride,
     modelOverride |-> command.modelOverride,
     forceDefaultModel |-> FALSE]

\* the options processMessage gives ensureThreadRuntime inside its `catch`
CatchOptions(command) ==
    [forceNewSession |-> TRUE,
     providerOverride |-> command.providerOverride,
     modelOverride |-> Undefined,
     forceDefaultModel |-> TRUE]

\* an error that is handed to processMessage's catch wherever it was thrown
ThrowIntoCatch(t, error) ==
    [t EXCEPT !.pc = "catch", !.error = error, !.thrownAt = t.pc]

\* an error thrown while the task is at t: processMessage's `catch` gets what
\* its `try` throws; what the catch block itself throws leaves the task.  The
\* await that threw is kept with the error.
Throw(t, error) ==
    [t EXCEPT !.pc = IF t.inCatch THEN "failed" ELSE "catch",
              !.error = error,
              !.thrownAt = t.pc]

\* ensureThreadRuntime returned `runtime`, and runTurn is called on its client
RunTurn(t, runtime, via) ==
    [t EXCEPT !.pc = "turn", !.runtime = runtime, !.via = via, !.turns = @ + 1]

\* a resume failure that is thrown on instead of being caught
ResumeFailureThrown(t) == Throw(t, OtherError)

\* `catch (error)` around resumeThread: warn, then createThread on the same client
ResumeFailure(t) == [t EXCEPT !.pc = "create", !.resumeFailed = TRUE]

\* a provider comparison that never finds a mismatch
ProviderNeverMismatched(provider, runtime) == FALSE

\* `provider !== normalizeToken(existingRuntime.provider)`
ProviderMismatch(provider, runtime) == provider # normalizeToken(runtime.provider)

\* an updatedAt that is carried over from the record the task found
KeptUpdatedAt(existing, t) == IF existing = NoRecord THEN t ELSE existing.updatedAt

\* `updatedAt: now`
UpdatedAt(existing, t) == t

\* `createdAt: resetReason ? now : (existing?.createdAt ?? now)`
CreatedAt(resetReason, existing, t) ==
    IF resetReason # Undefined THEN t
    ELSE IF existing # NoRecord THEN existing.createdAt
    ELSE t

\* `...(ids.length > 0 && { mcpProfileIds: ids })`
StoredMcpProfileIds(ids) == IF Len(ids) > 0 THEN ids ELSE NoList

\* processMessage's task, from its start to its first await: the record is read,
\* the text parsed, the reset decided and, on a reset, the runtime torn down
processMessage(message) ==
    /\ task.pc = "idle"
    /\ handled < MaxMessages
    /\ LET existing == threads
           command == parseResetCommand(message.text, resolveProviderHints(existing, message))
           resetCheck ==
               IF existing = NoRecord THEN Undefined
               ELSE evaluateSessionReset(existing.updatedAt, clock, options.defaultPolicy)
           resetReason ==
               IF command.triggered THEN "trigger"
               ELSE IF resetCheck = "daily" THEN "daily_expiry"
               ELSE IF resetCheck = "idle" THEN "idle_expiry"
               ELSE Undefined
       IN  /\ IF resetReason # Undefined
                THEN /\ clients' = resetRuntimeForFreshSession
                     /\ runtimes' = NoRuntime
                ELSE UNCHANGED <<clients, runtimes>>
           /\ task' = [pc |-> "ensure",
                       message |-> message,
                       existing |-> existing,
                       command |-> command,
                       resetReason |-> resetReason,
                       opts |-> TryOptions(command, resetReason),
                       inCatch |-> FALSE,
                       record |-> NoRecord,
                       provider |-> "",
                       requestedModel |-> Undefined,
                       requestedMcpProfileIds |-> <<>>,
                       client |-> 0,
                       resumeFailed |-> FALSE,
                       runtime |-> NoRuntime,
                       error |-> OtherError,
                       thrownAt |-> Undefined,
                       prior |-> runtimes,
                       via |-> Undefined,
                       turns |-> 0]
    /\ UNCHANGED <<threads, clock, handled, options>>
    /\ stopped # "exited"
    /\ UNCHANGED <<avars, qvars, ivars, pvars, hvars, appvars, fvars>>

\* a choice of provider that asks the message before the record
ProviderRequestedFirst(providerOverride, record, message) ==
    OrElse(normalizeToken(providerOverride),
      OrElse(normalizeToken(message.provider),
        OrElse(normalizeToken(record.provider),
          OrElse(normalizeToken(defaultProvider), "claude"))))

\* `providerOverride || recordProvider || requestedProvider || default || "claude"`
resolveProvider(providerOverride, record, message) ==
    OrElse(normalizeToken(providerOverride),
      OrElse(normalizeToken(record.provider),
        OrElse(normalizeToken(message.provider),
          OrElse(normalizeToken(defaultProvider), "claude"))))

\* ensureThreadRuntime up to `await client.start()`, or to its early return
ensureThreadRuntime ==
    /\ task.pc = "ensure"
    /\ LET forceNewSession == task.opts.forceNewSession
           record == threads
           provider == resolveProvider(task.opts.providerOverride, record, task.message)
           requestedModel ==
               IF task.opts.forceDefaultModel THEN DefaultModel
               ELSE OrElse(task.opts.modelOverride,
                      OrElse(IF record = NoRecord THEN Undefined ELSE record.model,
                             DefaultModel))
           requestedMcpProfileIds ==
               normalizeMcpProfileIds(
                   Coalesce(task.message.mcpProfileIds,
                     Coalesce(IF record = NoRecord THEN NoList ELSE record.mcpProfileIds,
                              defaultMcpProfileIds)))
           keep ==
               /\ runtimes # NoRuntime
               /\ ~forceNewSession
               /\ \/ ProviderMismatch(provider, runtimes)
                  \/ mcpProfileIdsEqual(requestedMcpProfileIds, runtimes.mcpProfileIds)
           closed == IF runtimes = NoRuntime THEN clients
                     ELSE CloseClient(clients, runtimes.client)
           t == [task EXCEPT !.record = record,
                             !.provider = provider,
                             !.requestedModel = requestedModel,
                             !.requestedMcpProfileIds = requestedMcpProfileIds,
                             !.resumeFailed = FALSE]
       IN  IF provider = "codex" /\ options.codexExecutionError
           THEN /\ task' = Throw(task, OtherError)
                /\ UNCHANGED <<runtimes, clients>>
           ELSE IF keep
           THEN /\ task' = RunTurn(t, runtimes, "existing")
                /\ UNCHANGED <<runtimes, clients>>
           ELSE /\ runtimes' = NoRuntime
                /\ clients' = Append(closed, [provider |-> provider, state |-> "starting",
                                              exited |-> FALSE, session |-> Unset])
                /\ task' = [t EXCEPT !.pc = "start", !.client = Len(clients) + 1]
    /\ UNCHANGED <<threads, clock, handled, options>>
    /\ stopped # "exited"
    /\ UNCHANGED <<avars, qvars, ivars, pvars, hvars, appvars, fvars>>

\* the runtime ensureThreadRuntime builds and registers
NewRuntime(providerThreadId) ==
    [client |-> task.client,
     providerThreadId |-> providerThreadId,
     provider |-> task.provider,
     model |-> task.requestedModel,
     mcpProfileIds |-> task.requestedMcpProfileIds]

\* `await client.start()` returns: the stored provider thread is resumed when
\* there is one and no new session is forced, else a thread is started
clientStarted ==
    /\ task.pc = "start"
    /\ clients' = [clients EXCEPT ![task.client].state = "started"]
    /\ task' = [task EXCEPT !.pc =
                   IF /\ task.record # NoRecord
                      /\ task.record.providerThreadId # Unset
                      /\ ~task.opts.forceNewSession
                   THEN "resume" ELSE "create"]
    /\ UNCHANGED <<threads, runtimes, clock, handled, options>>
    /\ stopped # "exited"
    /\ UNCHANGED <<avars, qvars, ivars, pvars, hvars, appvars, fvars>>

\* `await client.start()` throws: nothing is registered and nothing is closed
clientStartFails ==
    /\ task.pc = "start"
    /\ task' = Throw(task, OtherError)
    /\ UNCHANGED <<threads, runtimes, clients, clock, handled, options>>
    /\ stopped # "exited"
    /\ UNCHANGED <<avars, qvars, ivars, pvars, hvars, appvars, fvars>>

\* thread/resume succeeds: the runtime is registered and returned
resumeThreadOk ==
    /\ task.pc = "resume"
    /\ LET runtime == NewRuntime(task.record.providerThreadId)
       IN  /\ runtimes' = runtime
           /\ task' = RunTurn(task, runtime, "resume")
    /\ UNCHANGED <<threads, clients, clock, handled, options>>
    /\ stopped # "exited"
    /\ UNCHANGED <<avars, qvars, ivars, pvars, hvars, appvars, fvars>>

\* thread/resume fails
resumeThreadFails ==
    /\ task.pc = "resume"
    /\ task' = ResumeFailure(task)
    /\ UNCHANGED <<threads, runtimes, clients, clock, handled, options>>
    /\ stopped # "exited"
    /\ UNCHANGED <<avars, qvars, ivars, pvars, hvars, appvars, fvars>>

\* a createThread whose record is left for the end of the turn to write
RecordLeftToTurn(t) == FALSE

\* createThread was called in the `else` branch (no stored provider thread, or
\* a forced new session), where the record is upserted right after it
InElseBranch(t) == ~t.resumeFailed

\* thread/start succeeds.  The agent names the new thread; the model names it
\* after the client that asked (a client asks once).  Outside the resume branch
\* the record is written at once; then the runtime is registered and returned.
createThreadOk ==
    /\ task.pc = "create"
    /\ LET providerThreadId == task.client
           runtime == NewRuntime(providerThreadId)
       IN  /\ clients' = [clients EXCEPT ![task.client].session = providerThreadId]
           /\ IF ~InElseBranch(task)
                THEN UNCHANGED threads
                ELSE threads' = [provider |-> task.provider,
                                 providerThreadId |-> providerThreadId,
                                 model |-> task.requestedModel,
                                 mcpProfileIds |->
                                     StoredMcpProfileIds(task.requestedMcpProfileIds),
                                 createdAt |-> clock,
                                 updatedAt |-> clock]
           /\ runtimes' = runtime
           /\ task' = RunTurn(task, runtime, "start")
    /\ UNCHANGED <<clock, handled, options>>
    /\ stopped # "exited"
    /\ UNCHANGED <<avars, qvars, ivars, pvars, hvars, appvars, fvars>>

\* thread/start fails
createThreadFails(error) ==
    /\ task.pc = "create"
    /\ error.kind # "exit"
    /\ task' = Throw(task, error)
    /\ UNCHANGED <<threads, runtimes, clients, clock, handled, options>>
    /\ stopped # "exited"
    /\ UNCHANGED <<avars, qvars, ivars, pvars, hvars, appvars, fvars>>

\* runTurn returns the reply: the record is upserted and the task returns
turnReturns ==
    /\ task.pc = "turn"
    /\ ~clients[task.runtime.client].exited
    /\ threads' = [provider |-> task.runtime.provider,
                   providerThreadId |-> task.runtime.providerThreadId,
                   model |-> task.runtime.model,
                   mcpProfileIds |-> StoredMcpProfileIds(task.runtime.mcpProfileIds),
                   createdAt |-> CreatedAt(task.resetReason, task.existing, clock),
                   updatedAt |-> UpdatedAt(task.existing, clock)]
    /\ task' = [task EXCEPT !.pc = "replied"]
    /\ UNCHANGED <<runtimes, clients, clock, handled, options>>
    /\ stopped # "exited"
    /\ UNCHANGED <<avars, qvars, ivars, pvars, hvars, appvars, fvars>>

\* runTurn throws: the agent reported an error, or no activity, or its child
\* exited while turn/start was pending.  On a client whose child has exited
\* already the turn neither returns nor throws.
turnThrows(error) ==
    /\ task.pc = "turn"
    /\ ~clients[task.runtime.client].exited
    /\ clients' = IF error.kind = "exit"
                  THEN [clients EXCEPT ![task.runtime.client].exited = TRUE]
                  ELSE clients
    /\ task' = Throw(task, error)
    /\ UNCHANGED <<threads, runtimes, clock, handled, options>>
    /\ stopped # "exited"
    /\ UNCHANGED <<avars, qvars, ivars, pvars, hvars, appvars, fvars>>

\* processMessage's `catch (error)`: rethrow, or tear the runtime down and call
\* ensureThreadRuntime again with the default model forced
catch ==
    /\ task.pc = "catch"
    /\ LET requested ==
               IF task.command.modelOverride # Undefined THEN task.command.modelOverride
               ELSE IF task.existing # NoRecord THEN task.existing.model
               ELSE Undefined
       IN  IF shouldFallbackToDefaultModel(task.error, requested)
           THEN /\ clients' = resetRuntimeForFreshSession
                /\ runtimes' = NoRuntime
                /\ task' = [task EXCEPT !.pc = "ensure", !.inCatch = TRUE,
                                        !.opts = CatchOptions(task.command)]
           ELSE /\ task' = [task EXCEPT !.pc = "failed"]
                /\ UNCHANGED <<clients, runtimes>>
    /\ UNCHANGED <<threads, clock, handled, options>>
    /\ stopped # "exited"
    /\ UNCHANGED <<avars, qvars, ivars, pvars, hvars, appvars, fvars>>

\* the task's promise settles and the queue is free for the next message
taskSettles ==
    /\ task.pc \in {"replied", "failed"}
    /\ task' = NoTask
    /\ handled' = handled + 1
    /\ UNCHANGED <<threads, runtimes, clients, clock, options>>
    /\ stopped # "exited"
    /\ UNCHANGED <<avars, qvars, ivars, pvars, hvars, appvars, fvars>>

\* time passes: a tick is long, and goes by between messages or during a turn
advanceClock ==
    /\ clock < MaxClock
    /\ task.pc \in {"idle", "turn"}
    /\ clock' = clock + 1
    /\ UNCHANGED <<threads, runtimes, clients, task, handled, options>>
    /\ stopped # "exited"
    /\ UNCHANGED <<avars, qvars, ivars, pvars, hvars, appvars, fvars>>

\* the store file ThreadStore.init finds: none, a record of an earlier run, or
\* one whose provider field is missing (init takes any object as a record)
RegistryInit ==
    /\ threads \in {NoRecord, LoadedRecord("claude"), LoadedRecord("")}
    /\ runtimes = NoRuntime
    /\ clients = <<>>
    /\ clock = 0
    /\ task = NoTask
    /\ handled = 0
    /\ options \in [codexExecutionError : BOOLEAN, defaultPolicy : Policies]
    /\ stopped = "running"
    /\ interrupts = {}
    /\ QueueIdle /\ IdemIdle /\ PeerIdle /\ ServerIdle /\ WebhookIdle /\ NoCall

RegistryNext ==
    \/ \E message \in Messages : processMessage(message)
    \/ ensureThreadRuntime
    \/ clientStarted
    \/ clientStartFails
    \/ resumeThreadOk
    \/ resumeThreadFails
    \/ createThreadOk
    \/ \E error \in Errors : createThreadFails(error)
    \/ turnReturns
    \/ \E error \in Errors : turnThrows(error)
    \/ catch
    \/ taskSettles
    \/ advanceClock

RegistrySpec == RegistryInit /\ [][RegistryNext]_vars

\* ====================================================================
\* FlintGateway.close, shutdown and FlintGateway.interruptThread
\* ====================================================================

MaxInterrupts == 1

\* a close() that clears the registry and closes no client
ClearedUnclosed(cs, rt) == cs

\* FlintGateway.close(): `for (const runtime of this.runtimes.values())
\* runtime.client.close()`, for the one thread of the model
closeRuntimes(cs, rt) == IF rt = NoRuntime THEN cs ELSE CloseClient(cs, rt.client)

\* shutdown(signal, exitProcess): server.stop(true) and gateway.close(), which
\* has no await in its body; the signal handlers pass exitProcess = true, and
\* process.exit(0) follows the await of close()'s promise
shutdown(exitProcess) ==
    /\ stopped = "running"
    /\ clients' = closeRuntimes(clients, runtimes)
    /\ runtimes' = NoRuntime
    /\ stopped' = IF exitProcess THEN "exited" ELSE "closed"
    /\ UNCHANGED <<threads, clock, task, handled, options, interrupts>>
    /\ UNCHANGED <<qvars, ivars, pvars, hvars, appvars, fvars>>

\* an interrupt() that closes the client it is called on
InterruptCloses(cs, c) == CloseClient(cs, c)

\* AppServerClient.interrupt(), as the registry sees it: turn/interrupt is sent
\* when a turn is on, a failure is swallowed, and the client is left as it is
interruptClient(cs, c) == cs

\* interruptThread(threadId): false when the thread has no runtime, else
\* `await runtime.client.interrupt()` and true
interruptThread ==
    /\ stopped # "exited"
    /\ Cardinality(interrupts) < MaxInterrupts
    /\ interrupts' = interrupts \cup
           {[client |-> runtimes.client,
             during |-> handled,
             turn |-> task.pc = "turn" /\ task.runtime = runtimes]}
    /\ clients' = IF runtimes = NoRuntime THEN clients
                  ELSE interruptClient(clients, runtimes.client)
    /\ UNCHANGED <<threads, runtimes, clock, task, handled, options, stopped>>
    /\ UNCHANGED <<qvars, ivars, pvars, hvars, appvars, fvars>>

ShutdownNext ==
    \/ RegistryNext
    \/ \E exitProcess \in BOOLEAN : shutdown(exitProcess)

InterruptNext ==
    \/ RegistryNext
    \/ interruptThread

\* the gateway with its default options, over a store file that is well formed
GatewayInit ==
    /\ RegistryInit
    /\ options = DefaultOptions
    /\ threads \in {NoRecord, LoadedRecord("claude")}

ShutdownSpec == GatewayInit /\ [][ShutdownNext]_vars

InterruptSpec == GatewayInit /\ [][InterruptNext]_vars



\* ====================================================================
\* Claims on the per-thread queue
\* ====================================================================

\* The calls made before call c for the same threadId.
EarlierCalls(c) == {d \in 1..(c - 1) : callKey[d] = callKey[c]}

\* C1: for one threadId no two calls run their tasks (runtime set-up, agent turn,
\* record upsert) at the same time, and while the task of a call is running
\* every earlier call for that threadId has finished or failed.
C1_TurnsNeverOverlap ==
    \A c \in DOMAIN phase :
        phase[c] \in Active =>
            /\ \A d \in EarlierCalls(c) : phase[d] \in Settled
            /\ \A d \in DOMAIN phase :
                   (d # c /\ callKey[d] = callKey[c]) => phase[d] \notin Active

\* C1 witness: a call is in its agent turn after an earlier call for the same
\* threadId, behind which it had to wait, has settled.
C1_Witness ==
    \E c \in DOMAIN phase :
        /\ phase[c] = "turn"
        /\ \E d \in EarlierCalls(c) : phase[d] \in Settled
        /\ \E d \in DOMAIN phase : d > c /\ callKey[d] = callKey[c] /\ phase[d] = "queued"

\* The position of call c in `started` (0 when its task has not begun).
StartIndex(c) ==
    IF \E i \in DOMAIN started : started[i] = c
      THEN CHOOSE i \in DOMAIN started : started[i] = c
      ELSE 0

\* C2: of two tasks enqueued under the same threadId, the one enqueued first
\* starts executing first: the second has not started unless the first has, and
\* then the first started earlier.
C2_SubmissionOrder ==
    \A c \in DOMAIN phase :
        \A d \in EarlierCalls(c) :
            StartIndex(c) # 0 => (StartIndex(d) # 0 /\ StartIndex(d) < StartIndex(c))

\* C2 witness: three tasks of one threadId were enqueued while the first was
\* still running, and the second and the third have started in that order.
C2_Witness ==
    \E k \in ThreadIds :
        /\ Cardinality({c \in DOMAIN phase : callKey[c] = k /\ StartIndex(c) # 0}) >= 3
        /\ \E c \in DOMAIN phase :
               callKey[c] = k /\ phase[c] \in Active /\ Cardinality(EarlierCalls(c)) >= 2

\* ====================================================================
\* Claims on the idempotency store
\* ====================================================================

\* The requests that reached execute(): non-streaming requests with a key.
Keyed == {r \in DOMAIN reqs : reqs[r].key # NoKey /\ ~reqs[r].sse}
KeyedWith(key) == {r \in Keyed : reqs[r].key = key}
Responded(r) == reqs[r].st = "responded"
SamePayload(r1, r2) == reqs[r1].route = reqs[r2].route /\ reqs[r1].body = reqs[r2].body
\* The first request that used the key.
FirstUse(key) == CHOOSE r \in KeyedWith(key) : \A q \in KeyedWith(key) : r <= q

\* C3: when every request made with an idempotency key carries the same body
\* and all of them arrive within the TTL of the first, every response has the
\* status and body of the first request's response, and every response but the
\* first request's is marked cached.  (Requests answered as JSON: a streaming
\* request never reaches the store.)
C3_IdempotentReplay ==
    \A key \in IdemKeys :
        ( /\ KeyedWith(key) # {}
          /\ \A r \in KeyedWith(key) :
                 /\ SamePayload(r, FirstUse(key))
                 /\ reqs[r].at - reqs[FirstUse(key)].at <= ttlMs )
        => \A r \in KeyedWith(key) :
               /\ (Responded(r) /\ r # FirstUse(key)) => reqs[r].response.cached
               /\ \A q \in KeyedWith(key) :
                      (Responded(r) /\ Responded(q)) =>
                          /\ reqs[r].response.status = reqs[q].response.status
                          /\ reqs[r].response.body = reqs[q].response.body

\* C3 witness: a repeat that arrived a full TTL after the first request, when the
\* first had already been answered, was answered from the replay cache.
C3_Witness ==
    \E key \in IdemKeys :
        /\ Cardinality(KeyedWith(key)) >= 2
        /\ \A r \in KeyedWith(key) :
               /\ SamePayload(r, FirstUse(key))
               /\ Responded(r)
        /\ \E r \in KeyedWith(key) :
               /\ reqs[r].at - reqs[FirstUse(key)].at = ttlMs
               /\ reqs[r].awaits = 0
               /\ reqs[r].response.cached
               /\ reqs[r].response.status = 200

\* C4: a request whose key was first used, within the TTL, by a request with a
\* different body is answered 409 "Idempotency key conflict.".
C4_ConflictAlways409 ==
    \A key \in IdemKeys :
        \A r \in KeyedWith(key) :
            ( /\ Responded(r)
              /\ ~SamePayload(r, FirstUse(key))
              /\ reqs[r].at - reqs[FirstUse(key)].at <= ttlMs )
            => /\ reqs[r].response.status = ConflictResult.status
               /\ reqs[r].response.body = ConflictResult.body

\* Request q arrived while the task of request r was in flight.
ArrivedDuringTask(q, r) ==
    /\ r < q
    /\ reqs[r].ran
    /\ reqs[r].st = "running" \/ reqs[r].endSeq >= q

\* C5: an execute call made while the task of another call with the same key is
\* in flight runs no task of its own and returns that task's result marked
\* cached; no two tasks of one key are ever in flight together.
C5_InflightCoalesced ==
    \A r \in Keyed :
        \A q \in Keyed :
            (reqs[q].key = reqs[r].key /\ ArrivedDuringTask(q, r)) =>
                /\ ~reqs[q].ran
                /\ Responded(q) =>
                       /\ reqs[q].response.cached
                       /\ reqs[q].response.status = reqs[r].taskResult.status
                       /\ reqs[q].response.body = reqs[r].taskResult.body

\* C5 witness: a call that arrived during another call's task has been answered
\* with that task's result.
C5_Witness ==
    \E r \in Keyed :
        \E q \in Keyed :
            /\ reqs[q].key = reqs[r].key
            /\ ArrivedDuringTask(q, r)
            /\ Responded(q)
            /\ Responded(r)
            /\ reqs[q].response.body = reqs[r].response.body

\* ====================================================================
\* Claims on the Agent Protocol client and the inactivity watchdog
\* ====================================================================
TurnInFlight == pc \in {"turn/start", "streaming"}

\* C6: once the inactivity timer of a turn has expired, runTurn ends by
\* throwing, so the caller is not left waiting forever (unless new activity
\* arms the timer again, or the peer is closed or the child exits in the
\* meantime, which other claims are about).
C6_NoActivityFailsTurn ==
    timedOut ~> (pc = "threw" \/ timer \/ isClosing \/ child = "exited")

\* C7: when the child exits during a turn in flight without having emitted
\* turn/completed, and the exit watcher has yet to see it, runTurn ends by
\* throwing; it does not hang (unless the peer is closed, which another claim
\* is about).
C7_ExitEndsTurn ==
    (/\ TurnInFlight
     /\ child = "exited"
     /\ watcher = "waiting"
     /\ agent.turn # "completed"
     /\ ~isClosing)
        ~> (pc = "threw" \/ isClosing)

\* C11: a call that gets no response does not stay pending for ever: it is
\* rejected and leaves the pending table (unless the peer is closed or the child
\* exits in the meantime, which other claims are about).
C11_UnansweredCallRejected ==
    (Unsettled # {} /\ child = "alive")
        ~> (Unsettled = {} \/ isClosing \/ child = "exited")

InitializedSent(upTo) ==
    \E j \in 1..upTo :
        toChild[j].kind = "notification" /\ toChild[j].method = "initialized"

\* C12: the first line written to the child is the `initialize` request; the
\* `initialized` notification is written only once the `initialize` call has
\* been resolved; the peer is marked initialized only once the notification has
\* been written; and every thread/* or turn/* request is written after it.
C12_HandshakeOrder ==
    /\ toChild # <<>> =>
          toChild[1].kind = "request" /\ toChild[1].method = "initialize"
    /\ InitializedSent(Len(toChild)) =>
          calls[CallOf("initialize")].state = "resolved"
    /\ initialized => InitializedSent(Len(toChild))
    /\ \A i \in DOMAIN toChild :
          (toChild[i].kind = "request" /\ toChild[i].method # "initialize")
              => InitializedSent(i - 1)

C12_Witness ==
    /\ initialized
    /\ \E i \in DOMAIN toChild :
          toChild[i].kind = "request" /\ toChild[i].method = "turn/start"

\* the approval requests handleMessage was given while the peer was open and a
\* turn was listening
ApprovalsInTurn ==
    {i \in DOMAIN serverRequests :
        /\ serverRequests[i].method \in ApprovalMethods
        /\ serverRequests[i].stdin = "open"
        /\ serverRequests[i].listeners # {}}

ResponsesTo(id) ==
    {j \in DOMAIN toChild : toChild[j].kind = "response" /\ toChild[j].id = id}

\* the translated event stream: what prompt() has yielded, then what it still holds
Translated == stream \o events

IsTailOf(t, h) ==
    /\ Len(t) = (IF Len(h) < StderrTailDefault THEN Len(h) ELSE StderrTailDefault)
    /\ \A k \in 1..Len(t) : t[k] = h[Len(h) - Len(t) + k]

\* C9: when the exit watcher of a peer that has not been closed sees the child
\* exit, every call in the pending table is rejected with the exit error, which
\* carries the child's exit code and the last lines of the captured stderr, and
\* the pending table is left empty.
C9_ExitFailsPending ==
    [][(watcher = "waiting" /\ watcher' = "done" /\ ~isClosing /\ proc = "p")
        => /\ pendingRequests' = {}
           /\ \A id \in pendingRequests :
                 /\ calls'[id].state = "rejected"
                 /\ calls'[id].error.message = "App server exited with code"
                 /\ calls'[id].error.code = exitCode
                 /\ IsTailOf(calls'[id].error.tail, stderrHistory)]_vars

C9_Witness ==
    /\ watcher = "done"
    /\ pendingRequests = {}
    /\ Len(stderrHistory) > StderrTailDefault
    /\ \E id \in DOMAIN calls :
          /\ calls[id].state = "rejected"
          /\ calls[id].error.code = exitCode
          /\ Len(calls[id].error.tail) = StderrTailDefault

\* C10: after close() no call is left unsettled.
C10_CloseSettlesPending == isClosing => Unsettled = {}

\* ====================================================================
\* Claims on the gateway's runtimes and thread records
\* ====================================================================

\* the running task's message triggered a reset (a command, or an expiry)
ResetTriggered == task.pc # "idle" /\ task.resetReason # Undefined

\* C13: while the task of a message that triggered a reset runs, the runtime the
\* thread had when the message arrived is closed and no longer registered; and
\* when the message's turn runs, it runs on a session that thread/start created
\* for this message's client, not on the providerThreadId the store held.
C13_ResetStartsFreshSession ==
    ResetTriggered =>
        /\ task.prior # NoRuntime =>
              /\ clients[task.prior.client].state = "closed"
              /\ runtimes.client # task.prior.client
        /\ task.pc = "turn" =>
              /\ task.via = "start"
              /\ task.runtime = runtimes
              /\ task.runtime.client # task.prior.client
              /\ clients[task.runtime.client].session = task.runtime.providerThreadId
              /\ task.existing # NoRecord =>
                    task.runtime.providerThreadId # task.existing.providerThreadId

\* a turn runs after an expiry reset that found a runtime and a record
C13_Witness ==
    /\ task.pc = "turn"
    /\ task.resetReason \in {"daily_expiry", "idle_expiry"}
    /\ task.prior # NoRuntime
    /\ task.existing # NoRecord

\* C14: a turn never runs on a runtime whose child exited during an earlier
\* turn: the next message gets a new runtime with a new child.
C14_FailedRuntimeNotReused ==
    task.pc = "turn" => ~clients[task.runtime.client].exited

\* C15: when thread/resume fails, thread/start is issued on the same client; if
\* that succeeds the message's turn runs on the session it created, registered
\* for the thread; and no message fails with an error thrown by thread/resume.
C15_ResumeFailureFallsBack ==
    /\ (task.pc \in {"create", "turn", "replied"} /\ task.resumeFailed) =>
          clients[task.client].state = "started"
    /\ (task.pc \in {"turn", "replied"} /\ task.resumeFailed) =>
          /\ task.via = "start"
          /\ task.runtime.client = task.client
          /\ task.runtime.providerThreadId = clients[task.client].session
          /\ task.runtime.providerThreadId # task.record.providerThreadId
          /\ runtimes = task.runtime
    /\ task.pc \in {"catch", "failed"} => task.thrownAt # "resume"

\* a message was answered although its thread/resume had failed
C15_Witness ==
    /\ task.pc = "replied"
    /\ task.resumeFailed
    /\ task.turns = 1

\* ensureThreadRuntime, called without forceNewSession, found the runtime the
\* thread had when the message arrived
FoundRuntime ==
    /\ task.pc \notin {"idle", "ensure"}
    /\ ~task.inCatch
    /\ ~task.opts.forceNewSession
    /\ task.prior # NoRuntime

McpProfilesDiffer ==
    /\ FoundRuntime
    /\ task.provider = task.prior.provider
    /\ task.requestedMcpProfileIds # task.prior.mcpProfileIds

\* C16: when ensureThreadRuntime finds a runtime, is not forcing a new session,
\* the provider matches and the normalized requested mcpProfileIds differ from
\* the runtime's, that runtime's client is closed and the runtime is no longer
\* registered; and the turn runs on a new, registered runtime that holds the
\* requested list (the message's own list, normalized, when it sends one).
C16_ProfileChangeRecyclesRuntime ==
    McpProfilesDiffer =>
        /\ clients[task.prior.client].state = "closed"
        /\ runtimes.client # task.prior.client
        /\ task.pc \in {"turn", "replied"} =>
              /\ task.runtime = runtimes
              /\ task.runtime.client = task.client
              /\ task.runtime.client > task.prior.client
              /\ clients[task.runtime.client].state = "started"
              /\ task.runtime.mcpProfileIds = task.requestedMcpProfileIds
              /\ task.message.mcpProfileIds # NoList =>
                    task.runtime.mcpProfileIds
                        = normalizeMcpProfileIds(task.message.mcpProfileIds)

\* a turn runs after such a recycling, for a message that sent its own list
C16_Witness ==
    /\ McpProfilesDiffer
    /\ task.pc = "turn"
    /\ task.message.mcpProfileIds # NoList
    /\ Len(task.runtime.mcpProfileIds) = Len(task.prior.mcpProfileIds)

ProviderDiffers ==
    /\ FoundRuntime
    /\ task.provider # ""
    /\ task.provider # task.prior.provider

\* C17: when ensureThreadRuntime finds a runtime, is not forcing a new session,
\* and the provider it resolved differs from the runtime's, it returns that
\* runtime as it is: the runtime stays registered and unchanged, its client is
\* not closed, the task creates no client, and the turn runs on that runtime.
C17_ProviderMismatchKeepsRuntime ==
    ProviderDiffers =>
        /\ runtimes = task.prior
        /\ clients[task.prior.client].state = "started"
        /\ task.client = 0
        /\ task.runtime = task.prior
        /\ task.via = "existing"
        /\ task.pc \in {"turn", "replied", "catch", "failed"}
        /\ task.turns = 1

\* such a turn runs, asked for with mcpProfileIds that differ from the runtime's
C17_Witness ==
    /\ ProviderDiffers
    /\ task.pc = "turn"
    /\ task.requestedMcpProfileIds # task.prior.mcpProfileIds

\* the sessions thread/start has created for the thread since the gateway started
SessionsCreated == {clients[c].session : c \in DOMAIN clients} \ {Unset}

\* C18: the store holds a record for the thread exactly when a session has been
\* created for it by a successful thread/start: with no record no thread/start
\* has succeeded; with a record, its providerThreadId is a session thread/start
\* created (or the one the store file of an earlier run came with).
C18_RecordIffSessionCreated ==
    /\ threads = NoRecord => SessionsCreated = {}
    /\ threads # NoRecord =>
          \/ threads.providerThreadId \in SessionsCreated
          \/ threads.providerThreadId = LoadedRecord("").providerThreadId

\* the first session of a thread exists, with its record, before any turn ended
C18_Witness ==
    /\ task.pc = "turn"
    /\ task.existing = NoRecord
    /\ handled = 0
    /\ threads # NoRecord
    /\ threads.providerThreadId \in SessionsCreated

\* C19: the thread's record never has an updatedAt earlier than its createdAt.
C19_UpdatedNotBeforeCreated ==
    threads # NoRecord => threads.updatedAt >= threads.createdAt

\* a reset message's turn returned, later than the record it found was written
C19_Witness ==
    /\ task.pc = "replied"
    /\ task.resetReason # Undefined
    /\ task.existing # NoRecord
    /\ threads.createdAt > task.existing.updatedAt
    /\ threads.updatedAt = threads.createdAt

\* C20: the task of one message runs at most two turns, the second only in the
\* model fallback; what the fallback's set-up or re-run throws is not caught
\* again: it ends the task with that error.
C20_FallbackAtMostOnce ==
    task.pc # "idle" =>
        /\ task.turns <= 2
        /\ task.turns = 2 => task.inCatch
        /\ task.inCatch => task.pc # "catch"

\* the re-run of a fallback threw an invalid-model error and the task failed
C20_Witness ==
    /\ task.pc = "failed"
    /\ task.inCatch
    /\ task.turns = 2
    /\ task.thrownAt = "turn"
    /\ task.error.kind = "invalid_model"

\* ====================================================================
\* Claims on streaming turns
\* ====================================================================

MaxDeliveries == 3
MaxWebhookTime == 3
\* DEDUP_TTL_MS, in the ticks of `wnow`
DEDUP_TTL_MS == 1

EventIds == {"e1", "e2"}

\* what verifyRequest and parseWebhook make of a request
WebhookKinds == {"invalid", "ignore", "message"}

\* a cleanup that also drops the entries that are exactly DEDUP_TTL_MS old
cleanupSeenAtTtl(t) ==
    [id \in {k \in DOMAIN seenEvents : ~(t - seenEvents[k] >= DEDUP_TTL_MS)} |-> seenEvents[id]]

\* cleanupSeen(): `if (now - ts > DEDUP_TTL_MS) seen.delete(id)`
cleanupSeen(t) ==
    [id \in {k \in DOMAIN seenEvents : ~(t - seenEvents[k] > DEDUP_TTL_MS)} |-> seenEvents[id]]

\* the handler is called with a request; it awaits req.text() and verifyRequest
webhookReceived(eventId, kind) ==
    /\ Len(deliveries) < MaxDeliveries
    /\ deliveries' = Append(deliveries,
           [eventId |-> eventId, kind |-> kind, pc |-> "verify", at |-> Unset,
            handled |-> "no", replies |-> <<>>])
    /\ UNCHANGED <<seenEvents, wnow>>
    /\ UNCHANGED <<qvars, ivars, pvars, gvars, fvars, appvars>>

\* the handler after its awaits, in one stretch: 401, or the answer to a
\* challenge or an event to ignore, or the duplicate check; an accepted event is
\* entered in `seen` and processWebhookEvent begins with adapter.acknowledge
webhookChecked(d) ==
    /\ deliveries[d].pc = "verify"
    /\ LET kind == deliveries[d].kind
           id == deliveries[d].eventId
           cleaned == cleanupSeen(wnow)
       IN  IF kind = "invalid"
           THEN /\ deliveries' = [deliveries EXCEPT ![d].pc = "401"]
                /\ UNCHANGED seenEvents
           ELSE IF kind = "ignore"
           THEN /\ deliveries' = [deliveries EXCEPT ![d].pc = "ok"]
                /\ UNCHANGED seenEvents
           ELSE IF MapHas(cleaned, id)
           THEN /\ deliveries' = [deliveries EXCEPT ![d].pc = "deduplicated", ![d].at = wnow]
                /\ seenEvents' = cleaned
           ELSE /\ deliveries' = [deliveries EXCEPT ![d].pc = "acknowledge", ![d].at = wnow]
                /\ seenEvents' = MapSet(cleaned, id, wnow)
    /\ UNCHANGED wnow
    /\ UNCHANGED <<qvars, ivars, pvars, gvars, fvars, appvars>>

\* adapter.acknowledge settles, either way: gateway.handleMessage is called
acknowledgeSettles(d) ==
    /\ deliveries[d].pc = "acknowledge"
    /\ deliveries' = [deliveries EXCEPT ![d].pc = "handleMessage"]
    /\ UNCHANGED <<seenEvents, wnow>>
    /\ UNCHANGED <<qvars, ivars, pvars, gvars, fvars, appvars>>

\* processWebhookEvent's catch: deliverReply is called with the formatted error
CatchProcessFailure(delivery) ==
    [delivery EXCEPT !.pc = "deliverError", !.replies = Append(@, "error")]

\* handleMessage resolves: deliverReply is called with the reply
handleMessageReturns(d) ==
    /\ deliveries[d].pc = "handleMessage"
    /\ deliveries' = [deliveries EXCEPT ![d].pc = "deliverReply",
                                        ![d].handled = "replied",
                                        ![d].replies = Append(@, "reply")]
    /\ UNCHANGED <<seenEvents, wnow>>
    /\ UNCHANGED <<qvars, ivars, pvars, gvars, fvars, appvars>>

\* handleMessage rejects
handleMessageThrows(d) ==
    /\ deliveries[d].pc = "handleMessage"
    /\ deliveries' = [deliveries EXCEPT
                         ![d] = CatchProcessFailure([@ EXCEPT !.handled = "failed"])]
    /\ UNCHANGED <<seenEvents, wnow>>
    /\ UNCHANGED <<qvars, ivars, pvars, gvars, fvars, appvars>>

\* deliverReply(meta, result.reply) settles; its rejection is caught by the
\* same catch as handleMessage's
deliverReplySettles(d, ok) ==
    /\ deliveries[d].pc = "deliverReply"
    /\ deliveries' = [deliveries EXCEPT
                         ![d] = IF ok THEN [@ EXCEPT !.pc = "done"]
                                ELSE CatchProcessFailure(@)]
    /\ UNCHANGED <<seenEvents, wnow>>
    /\ UNCHANGED <<qvars, ivars, pvars, gvars, fvars, appvars>>

\* deliverReply(meta, error message) settles; its rejection is only logged
deliverErrorSettles(d) ==
    /\ deliveries[d].pc = "deliverError"
    /\ deliveries' = [deliveries EXCEPT ![d].pc = "done"]
    /\ UNCHANGED <<seenEvents, wnow>>
    /\ UNCHANGED <<qvars, ivars, pvars, gvars, fvars, appvars>>

\* time passes
webhookTick ==
    /\ wnow < MaxWebhookTime
    /\ wnow' = wnow + 1
    /\ UNCHANGED <<seenEvents, deliveries>>
    /\ UNCHANGED <<qvars, ivars, pvars, gvars, fvars, appvars>>

WebhookInit ==
    WebhookIdle /\ QueueIdle /\ IdemIdle /\ PeerIdle /\ ServerIdle /\ RegistryIdle /\ NoCall

WebhookNext ==
    \/ \E eventId \in EventIds, kind \in WebhookKinds : webhookReceived(eventId, kind)
    \/ \E d \in DOMAIN deliveries :
          \/ webhookChecked(d)
          \/ acknowledgeSettles(d)
          \/ handleMessageReturns(d)
          \/ handleMessageThrows(d)
          \/ \E ok \in BOOLEAN : deliverReplySettles(d, ok)
          \/ deliverErrorSettles(d)
    \/ webhookTick

WebhookSpec == WebhookInit /\ [][WebhookNext]_vars

\* the deliveries for which gateway.handleMessage has been called
Invoked == {d \in DOMAIN deliveries :
               deliveries[d].pc \in {"handleMessage", "deliverReply", "deliverError", "done"}}

\* the deliveries that passed the duplicate check (processWebhookEvent began)
Accepted == Invoked \cup {d \in DOMAIN deliveries : deliveries[d].pc = "acknowledge"}

\* the first accepted delivery of an event id: the accepted one with the least time
FirstAccepted(id) ==
    {d \in Accepted :
        /\ deliveries[d].eventId = id
        /\ \A e \in Accepted : deliveries[e].eventId = id => deliveries[d].at <= deliveries[e].at}

\* C22: of the deliveries of one event id that reach the duplicate check no
\* later than DEDUP_TTL_MS after the first accepted one did, at most one is
\* accepted, so gateway.handleMessage is called for at most one of them.
C22_DuplicatesWithinTtlDropped ==
    \A id \in EventIds : \A f \in FirstAccepted(id) : \A d, e \in Accepted :
        ( /\ deliveries[d].eventId = id
          /\ deliveries[e].eventId = id
          /\ deliveries[d].at <= deliveries[f].at + DEDUP_TTL_MS
          /\ deliveries[e].at <= deliveries[f].at + DEDUP_TTL_MS ) => d = e

\* one delivery was handled and two more of the same event id were dropped, one
\* of them exactly DEDUP_TTL_MS after the first
C22_Witness ==
    \E d, e, f \in DOMAIN deliveries :
        /\ d # e /\ e # f /\ d # f
        /\ deliveries[d].pc = "done"
        /\ deliveries[e].pc = "deduplicated" /\ deliveries[e].eventId = deliveries[d].eventId
        /\ deliveries[f].pc = "deduplicated" /\ deliveries[f].eventId = deliveries[d].eventId
        /\ deliveries[e].at = deliveries[d].at
        /\ deliveries[f].at = deliveries[d].at + DEDUP_TTL_MS

\* C23: once handleMessage has settled for an accepted event, deliverReply has
\* been called exactly once: with the reply if handleMessage resolved, with the
\* formatted error if it rejected, and with the error only then.
C23_OneReplyPerEvent ==
    \A d \in DOMAIN deliveries :
        /\ deliveries[d].handled = "replied" => deliveries[d].replies = <<"reply">>
        /\ deliveries[d].handled = "failed" => deliveries[d].replies = <<"error">>
        /\ deliveries[d].handled = "no" => deliveries[d].replies = <<>>

\* ====================================================================
\* Claims on shutdown and interruptThread
\* ====================================================================

InterruptedEarlier ==
    /\ FoundRuntime
    /\ ~McpProfilesDiffer
    /\ stopped = "running"
    /\ \E i \in interrupts : i.client = task.prior.client /\ i.during < handled

\* C25: a step of interruptThread changes neither the registry entry nor any
\* client; and a later message that finds the interrupted runtime (no reset, the
\* same mcpProfileIds) leaves it registered and open and runs its turn on it.
C25_InterruptKeepsRuntime ==
    /\ [][interrupts' # interrupts => (runtimes' = runtimes /\ clients' = clients)]_vars
    /\ [](InterruptedEarlier =>
             /\ runtimes = task.prior
             /\ clients[task.prior.client].state = "started"
             /\ task.client = 0
             /\ task.pc \in {"turn", "replied"} =>
                   (task.runtime = task.prior /\ task.via = "existing"))

\* a turn runs on a runtime that was interrupted during the turn before
C25_Witness ==
    /\ InterruptedEarlier
    /\ task.pc = "turn"
    /\ \E i \in interrupts : i.turn /\ i.client = task.runtime.client

\* ====================================================================
\* Claims on the independence of the threads' queues
\* ====================================================================

\* the thread whose tasks stay suspended, and the thread that is watched
SuspendedThread == 1
OtherThread == 2

\* what the task of a call of thread `key` and its drain do when the task's
\* awaits return and the drain is resumed
StepsOf(key) ==
    \E c \in DOMAIN callKey :
        /\ callKey[c] = key
        /\ EnsureOk(c) \/ TurnOk(c) \/ UpsertOk(c) \/ drainResume(c)

\* the awaits of OtherThread's tasks return and its drain is resumed; nothing
\* is assumed of any other thread, whose tasks may stay suspended for ever
QueueFairSpec == QueueSpec /\ WF_vars(StepsOf(OtherThread))

\* C26: a task enqueued for one thread starts and settles whatever the tasks of
\* the other thread do, even if they stay suspended in an await for ever; and a
\* task waits in the queue only behind a task of its own thread.
C26_OtherThreadNotBlocked ==
    /\ \A c \in Calls :
          (c \in DOMAIN callKey /\ callKey[c] = OtherThread)
              ~> (c \in DOMAIN phase /\ phase[c] \in Settled)
    /\ [](\A c \in DOMAIN phase :
             phase[c] = "queued" =>
                 \E d \in draining : d < c /\ callKey[d] = callKey[c])

\* two tasks of one thread were enqueued after a task of the other thread had
\* started, and both are done while that task is still suspended in its await
C26_Witness ==
    /\ Len(callKey) = 3
    /\ callKey[1] = SuspendedThread /\ phase[1] = "ensure"
    /\ callKey[2] = OtherThread /\ phase[2] = "done"
    /\ callKey[3] = OtherThread /\ phase[3] = "done"
    /\ running = {SuspendedThread}

\* ====================================================================
\* Claims on the order of a turn's events
\* ====================================================================

\* agent.emitted holds, in the order the child wrote them, the lines of the turn
\* that stand for something: the deltas, the server requests and turn/completed
Recorded(line) ==
    \/ line.kind = "request"
    \/ line.kind = "notification" /\ line.method # "turn/started"

\* those of them that readStdout has read
LinesRead ==
    SubSeq(agent.emitted, 1,
           Len(agent.emitted) - Cardinality({i \in DOMAIN fromChild : Recorded(fromChild[i])}))

\* the events one line of the child stands for: an approval request is handed
\* to the listeners as a notification of the same method
EventsOf(line) ==
    IF line.kind = "notification" THEN translateNotification(line)
    ELSE IF line.kind = "request" /\ line.method \in ApprovalMethods
    THEN <<AgentEvent("activity", "none")>>
    ELSE <<>>

RECURSIVE EventsOfAll(_)
EventsOfAll(lines) ==
    IF lines = <<>> THEN <<>> ELSE EventsOf(Head(lines)) \o EventsOfAll(Tail(lines))

RECURSIVE TextDeltas(_)
TextDeltas(evs) ==
    IF evs = <<>> THEN <<>>
    ELSE (IF Head(evs).type = "text" THEN <<Head(evs).delta>> ELSE <<>>)
             \o TextDeltas(Tail(evs))

IsPrefix(s, t) == Len(s) <= Len(t) /\ SubSeq(t, 1, Len(s)) = s

StoredThreadIds == {"a", "b"}
ProviderThreadIds == {"provider-thread-1", "provider-thread-2"}

\* the records a store file can hold: threadId and provider, and with or
\* without the agent's own thread id and a model
StoredRecords ==
    {[f \in {"threadId", "provider"} \cup optional |->
         CASE f = "threadId" -> id
           [] f = "provider" -> "claude"
           [] f = "providerThreadId" -> session
           [] f = "model" -> DefaultModel] :
     id \in StoredThreadIds, session \in ProviderThreadIds,
     optional \in SUBSET {"providerThreadId", "model"}}

\* ThreadStore.list(): the records of the store, one per threadId
StoredLists ==
    {<<>>} \cup {<<r>> : r \in StoredRecords}
           \cup {<<r, q>> : r \in {x \in StoredRecords : x.threadId = "a"},
                            q \in {x \in StoredRecords : x.threadId = "b"}}

\* a record returned as the store holds it
PrivateThreadRecord(record) == record

\* `const { providerThreadId: _providerThreadId, ...publicRecord } = record`
toPublicThreadRecord(record) ==
    [f \in DOMAIN record \ {"providerThreadId"} |-> record[f]]

listThreads == input

getThread(id) ==
    IF \E i \in DOMAIN input : input[i].threadId = id
    THEN input[CHOOSE i \in DOMAIN input : input[i].threadId = id]
    ELSE NoRecord

\* GET /v1/threads
getThreads ==
    /\ output = <<>>
    /\ output' = <<[route |-> "/v1/threads", status |-> 200,
                    data |-> [i \in DOMAIN listThreads |->
                                 toPublicThreadRecord(listThreads[i])]]>>
    /\ UNCHANGED input
    /\ UNCHANGED <<qvars, ivars, pvars, gvars, hvars, appvars>>

\* GET /v1/threads/:threadId; the body of a 200 is one record, here a list of one
getThreadById(id) ==
    /\ output = <<>>
    /\ LET thread == getThread(id)
       IN  output' = <<[route |-> "/v1/threads/:threadId",
                        status |-> IF thread = NoRecord THEN 404 ELSE 200,
                        data |-> IF thread = NoRecord THEN <<>>
                                 ELSE <<toPublicThreadRecord(thread)>>]>>
    /\ UNCHANGED input
    /\ UNCHANGED <<qvars, ivars, pvars, gvars, hvars, appvars>>

ThreadRoutesInit ==
    /\ input \in StoredLists
    /\ output = <<>>
    /\ QueueIdle /\ IdemIdle /\ PeerIdle /\ ServerIdle /\ RegistryIdle /\ WebhookIdle

ThreadRoutesNext ==
    \/ getThreads
    \/ \E id \in StoredThreadIds : getThreadById(id)

ThreadRoutesSpec == ThreadRoutesInit /\ [][ThreadRoutesNext]_vars

\* the agent's thread ids the store holds
StoredProviderThreadIds ==
    {input[i].providerThreadId :
        i \in {j \in DOMAIN input : "providerThreadId" \in DOMAIN input[j]}}

\* C28: a response of GET /v1/threads or GET /v1/threads/:threadId holds no
\* record with a providerThreadId field and no field whose value is the
\* providerThreadId of a stored record; every other field of the stored record
\* is returned as it is.
C28_ProviderThreadIdNotExposed ==
    \A k \in DOMAIN output : \A i \in DOMAIN output[k].data :
        LET returned == output[k].data[i]
            stored == getThread(returned.threadId)
        IN  /\ "providerThreadId" \notin DOMAIN returned
            /\ \A f \in DOMAIN returned : returned[f] \notin StoredProviderThreadIds
            /\ DOMAIN returned = DOMAIN stored \ {"providerThreadId"}
            /\ \A f \in DOMAIN returned : returned[f] = stored[f]

\* the list of two stored threads was returned, both with a providerThreadId in the store
C28_Witness ==
    /\ output # <<>>
    /\ output[1].route = "/v1/threads"
    /\ Len(output[1].data) = 2
    /\ Cardinality(StoredProviderThreadIds) = 2

\* ====================================================================
\* evaluateSessionReset as a function of updatedAt
\* ====================================================================

MaxStamp == 3
Stamps == 0..MaxStamp

\* updatedAt as the record holds it: missing, unparsable, or a time
UpdatedAts == {Unset, InvalidDate} \cup Stamps

ResetPolicies ==
    [dailyAtHour : {Unset} \cup (0..(TicksPerDay - 1)), idleMinutes : {Unset, 1, 2}]

\* evaluateSessionReset is called on two values of updatedAt with the same
\* nowMs and policy
evaluateBoth ==
    /\ output = <<>>
    /\ output' = <<evaluateSessionReset(input.u1, input.nowMs, input.policy),
                   evaluateSessionReset(input.u2, input.nowMs, input.policy)>>
    /\ UNCHANGED input
    /\ UNCHANGED <<qvars, ivars, pvars, gvars, hvars, appvars>>

ResetEvalInit ==
    /\ input \in [u1 : UpdatedAts, u2 : UpdatedAts, nowMs : Stamps, policy : ResetPolicies]
    /\ output = <<>>
    /\ QueueIdle /\ IdemIdle /\ PeerIdle /\ ServerIdle /\ RegistryIdle /\ WebhookIdle

ResetEvalNext == evaluateBoth

ResetEvalSpec == ResetEvalInit /\ [][ResetEvalNext]_vars

\* C29: for the same nowMs and policy, when updatedAt u1 is not expired and u2
\* is a later time than u1, u2 is not expired either.
C29_ResetMonotoneInUpdatedAt ==
    ( /\ output # <<>>
      /\ input.u1 \in Stamps /\ input.u2 \in Stamps
      /\ input.u2 > input.u1
      /\ output[1] = Undefined ) => output[2] = Undefined

\* both policies are set, u1 is exactly on the daily boundary and not expired,
\* and the later u2 is not expired
C29_Witness ==
    /\ output = <<Undefined, Undefined>>
    /\ input.policy.dailyAtHour # Unset /\ input.policy.idleMinutes # Unset
    /\ input.u1 \in Stamps /\ input.u2 \in Stamps
    /\ input.u2 > input.u1
    /\ input.u1 = resolveLatestDailyBoundary(input.nowMs, input.policy.dailyAtHour)

\* ====================================================================
\* resolveThreadId
\* ====================================================================

RoutingModes == {"main", "per-peer", "per-channel-peer", "per-account-channel-peer"}

\* the messages resolveThreadId is given; a token of an identity link is the
\* list of its parts between colons
RoutedMessages ==
    [channel : {"telegram", " Telegram "},
     accountId : {Undefined, "acct"},
     chatType : {Undefined, "direct", "group", "channel"},
     peerId : {Undefined, "peer-1", "Peer-1"},
     userId : {"u1", "peer-1"},
     identityId : {Undefined, "id-1"},
     channelThreadId : {Undefined, "T-9"}]

IdentityLinkTables ==
    {<<>>,
     <<[canonical |-> "Nader", ids |-> <<<<"telegram", "peer-1">>>>]>>,
     <<[canonical |-> "", ids |-> <<<<"peer-1">>>>],
       [canonical |-> "nader", ids |-> <<<<"other">>, <<"Peer-1">>>>]>>}

\* `normalized || undefined`
normalizeOptionalToken(value) ==
    IF normalizeToken(value) = "" THEN Undefined ELSE normalizeToken(value)

normalizeChatType(value) == IF value \in {"group", "channel"} THEN value ELSE "direct"

resolvePeerId(message) ==
    OrElse(OrElse(normalizeToken(message.peerId), normalizeToken(message.userId)), "unknown")

\* normalizeToken of a token of an identity link, part by part
NormalizedParts(parts) == [i \in DOMAIN parts |-> normalizeToken(parts[i])]

\* resolveLinkedIdentity: the first canonical, in the table's order, one of
\* whose tokens is the peer id or `${channel}:${peerId}`
resolveLinkedIdentity(channel, peerId, identityLinks) ==
    LET candidates == {<<peerId>>, <<channel, peerId>>}
        matching == {k \in DOMAIN identityLinks :
                        /\ normalizeToken(identityLinks[k].canonical) # ""
                        /\ \E i \in DOMAIN identityLinks[k].ids :
                              NormalizedParts(identityLinks[k].ids[i]) \in candidates}
    IN  IF peerId = "" \/ matching = {} THEN Undefined
        ELSE normalizeToken(
                 identityLinks[CHOOSE k \in matching : \A j \in matching : k <= j].canonical)

\* a thread id is the list of its parts between colons
maybeWithThreadSuffix(baseThreadId, channelThreadId) ==
    IF normalizeOptionalToken(channelThreadId) = Undefined THEN baseThreadId
    ELSE baseThreadId \o <<"thread", normalizeOptionalToken(channelThreadId)>>

\* a resolution that looks at the routing mode before the chat type
ResolvedByModeFirst(message, routingMode, identityLinks) ==
    IF routingMode = "main" THEN <<"agent", "main", "main">>
    ELSE maybeWithThreadSuffix(
             <<"agent", "main", OrElse(normalizeToken(message.channel), "unknown"),
               normalizeChatType(message.chatType), resolvePeerId(message)>>,
             message.channelThreadId)

resolveThreadId(message, routingMode, identityLinks) ==
    LET channel == OrElse(normalizeToken(message.channel), "unknown")
        accountId == OrElse(normalizeToken(message.accountId), "default")
        chatType == normalizeChatType(message.chatType)
        peerId == resolvePeerId(message)
        identityId == normalizeOptionalToken(message.identityId)
        linkedIdentity == resolveLinkedIdentity(channel, peerId, identityLinks)
        principal == OrElse(identityId, OrElse(linkedIdentity, peerId))
    IN  IF chatType # "direct"
        THEN maybeWithThreadSuffix(<<"agent", "main", channel, chatType, peerId>>,
                                   message.channelThreadId)
        ELSE CASE routingMode = "main" -> <<"agent", "main", "main">>
               [] routingMode = "per-peer" -> <<"agent", "main", "direct", principal>>
               [] routingMode = "per-channel-peer" ->
                      maybeWithThreadSuffix(<<"agent", "main", channel, "direct", principal>>,
                                            message.channelThreadId)
               [] routingMode = "per-account-channel-peer" ->
                      maybeWithThreadSuffix(
                          <<"agent", "main", channel, accountId, "direct", principal>>,
                          message.channelThreadId)

\* FlintGateway.handleMessage resolves the thread of a message
resolveThread ==
    /\ output = <<>>
    /\ output' = <<resolveThreadId(input.message, input.routingMode, input.identityLinks)>>
    /\ UNCHANGED input
    /\ UNCHANGED <<qvars, ivars, pvars, gvars, hvars, appvars>>

RoutingInit ==
    /\ input \in [message : RoutedMessages, routingMode : RoutingModes,
                  identityLinks : IdentityLinkTables]
    /\ output = <<>>
    /\ QueueIdle /\ IdemIdle /\ PeerIdle /\ ServerIdle /\ RegistryIdle /\ WebhookIdle

RoutingNext == resolveThread

RoutingSpec == RoutingInit /\ [][RoutingNext]_vars

\* two messages with the same channel, chat type, peer id (the message's peerId,
\* else its userId) and channel thread, once normalized
SameGroupKey(m, n) ==
    /\ normalizeToken(m.channel) = normalizeToken(n.channel)
    /\ normalizeChatType(m.chatType) = normalizeChatType(n.chatType)
    /\ resolvePeerId(m) = resolvePeerId(n)
    /\ normalizeOptionalToken(m.channelThreadId) = normalizeOptionalToken(n.channelThreadId)

\* C30: the thread id resolved for a group or channel message is the one
\* resolved for it under every other routing mode and identity-link table, and
\* the one resolved for every message with the same normalized channel, chat
\* type, peer id and channel thread, whatever its other fields.
C30_GroupThreadIgnoresRouting ==
    (output # <<>> /\ input.message.chatType \in {"group", "channel"}) =>
        /\ \A mode \in RoutingModes, links \in IdentityLinkTables :
              resolveThreadId(input.message, mode, links) = output[1]
        /\ \A other \in RoutedMessages :
              SameGroupKey(input.message, other) =>
                  resolveThreadId(other, input.routingMode, input.identityLinks) = output[1]

\* a group message in a channel thread, from a peer an identity link names,
\* resolved under the routing mode `main`
C30_Witness ==
    /\ output = <<<<"agent", "main", "telegram", "group", "peer-1", "thread", "t-9">>>>
    /\ input.routingMode = "main"
    /\ input.message.identityId # Undefined
    /\ resolveLinkedIdentity("telegram", "peer-1", input.identityLinks) = "nader"

\* ====================================================================
\* Claims on failed tasks and on what the queue keeps
\* ====================================================================

\* C32: the step in which a task fails changes the state of no other call; a
\* call's task has started only if every earlier call of its thread, failed
\* ones included, has settled; and a call queued behind a failed call of its
\* thread is started.
C32_FailureStaysWithItsCaller ==
    /\ [][\A c \in DOMAIN phase :
             (phase[c] # "failed" /\ phase'[c] = "failed") =>
                 \A d \in DOMAIN phase \ {c} : phase'[d] = phase[d]]_vars
    /\ [](\A c \in DOMAIN phase :
             phase[c] # "queued" => \A d \in EarlierCalls(c) : phase[d] \in {"done", "failed"})
    /\ \A c \in Calls :
          (/\ c \in DOMAIN phase
           /\ callKey[c] = OtherThread
           /\ phase[c] = "queued"
           /\ \E d \in EarlierCalls(c) : phase[d] = "failed")
              ~> (c \in DOMAIN phase /\ phase[c] # "queued")

\* the first task of a thread failed, and the two enqueued after it have run:
\* one is done and the last is in its turn
C32_Witness ==
    /\ Len(callKey) = 3
    /\ \A c \in 1..3 : callKey[c] = OtherThread
    /\ phase = <<"failed", "done", "turn">>

\* the keys that have a call queued, running, or settled with its drain not
\* yet resumed from `await job()`
BusyKeys ==
    {callKey[c] : c \in {d \in DOMAIN phase : phase[d] = "queued" \/ phase[d] \in Active}
                           \cup draining}

\* C40: no key has two live drains, the running marks are those of the live
\* drains, and a key with no call queued or running (its drain has left the
\* loop) has neither an array in `queues` nor a mark in `running`.
C40_OneDrainAndNoResidue ==
    /\ \A c, d \in draining : callKey[c] = callKey[d] => c = d
    /\ running = {callKey[c] : c \in draining}
    /\ \A key \in ThreadIds :
          key \notin BusyKeys => (key \notin running /\ ~MapHas(queues, key))

\* a key whose two tasks have run and whose drain has ended, while the other
\* key's task is still running
C40_Witness ==
    /\ Len(callKey) = 3
    /\ callKey = <<SuspendedThread, OtherThread, OtherThread>>
    /\ phase[1] = "turn" /\ phase[2] = "failed" /\ phase[3] = "done"
    /\ draining = {1}
    /\ running = {SuspendedThread}
    /\ DOMAIN queues = {SuspendedThread}

\* ====================================================================
\* Claims on the pending table of the peer
\* ====================================================================

\* the request lines the client has written to the child
RequestLines == {i \in DOMAIN toChild : toChild[i].kind = "request"}

\* C33: reading a response line whose id is in the pending table settles the
\* call of that id, which was pending, removes that id alone from the table
\* and leaves every other call as it was; reading a response line whose id is
\* not in the table changes neither the table nor any call; and no two requests
\* written to the child carry the same id, every id in the table being the id
\* of one pending call.
C33_ResponseSettlesItsCall ==
    /\ [][(fromChild # <<>> /\ fromChild' = Tail(fromChild)
              /\ Head(fromChild).kind = "response")
           => LET id == Head(fromChild).id
              IN  IF id \in pendingRequests
                  THEN /\ pendingRequests' = pendingRequests \ {id}
                       /\ calls[id].state = "pending"
                       /\ calls'[id].state \in {"resolved", "rejected"}
                       /\ \A j \in DOMAIN calls \ {id} : calls'[j] = calls[j]
                  ELSE /\ pendingRequests' = pendingRequests
                       /\ calls' = calls]_vars
    /\ [](/\ \A i, j \in RequestLines : toChild[i].id = toChild[j].id => i = j
          /\ \A id \in pendingRequests :
                /\ id \in DOMAIN calls
                /\ calls[id].state = "pending"
                /\ \E i \in RequestLines : toChild[i].id = id)

\* one call has been settled by its response while another id is still in the
\* table, and the response to a call the exit watcher had already rejected has
\* been read and dropped
C33_Witness ==
    /\ \E id \in DOMAIN calls : calls[id].state = "resolved"
    /\ \E id \in agent.answered :
          /\ id \in DOMAIN calls
          /\ calls[id].state = "rejected"
          /\ calls[id].error.message = "App server exited with code"
    /\ fromChild = <<>>

\* ====================================================================
\* Claims on the registry, the store and the clients
\* ====================================================================

\* C34: while no task of the thread is running, a registered runtime and a
\* stored record name the same provider thread.
C34_RecordMatchesRuntime ==
    (task = NoTask /\ runtimes # NoRuntime /\ threads # NoRecord)
        => threads.providerThreadId = runtimes.providerThreadId

\* C36: once the task that spawned it has ended, every agent child that is
\* still running is the client of the registered runtime: a child whose
\* start, thread/resume or thread/start failed has been closed.
C36_SpawnedRegisteredOrClosed ==
    task = NoTask =>
        \A i \in DOMAIN clients :
            \/ clients[i].state = "closed"
            \/ clients[i].exited
            \/ (runtimes # NoRuntime /\ runtimes.client = i)

\* C37: once close() has run, no step registers a runtime: the registry stays
\* as it is or loses its entry.
C37_NoRuntimeAfterClose ==
    [][stopped # "running" => (runtimes' = runtimes \/ runtimes' = NoRuntime)]_vars

\* C38: a step that changes the provider of a stored record (one that has a
\* provider) belongs to a task whose message was a reset command naming a
\* provider, and the record takes that provider.
C38_ProviderChangesOnlyByCommand ==
    [][(/\ threads # NoRecord
        /\ threads.provider # ""
        /\ threads'.provider # threads.provider)
       => /\ task.command.triggered
          /\ task.command.providerOverride # Undefined
          /\ threads'.provider = normalizeToken(task.command.providerOverride)]_vars

\* a record of provider claude has become one of provider codex, and a later
\* message that asked for another provider than the record's has been answered
\* without changing it
C38_Witness ==
    /\ threads # NoRecord
    /\ threads.provider = "codex"
    /\ task.pc = "replied"
    /\ task.existing # NoRecord
    /\ task.existing.provider = "claude"
    /\ task.command.providerOverride = "codex"

\* a plain message that asks for codex has been answered on a thread whose
\* record says claude, and the record still says claude
C38_OtherProviderIgnored ==
    /\ task.pc = "replied"
    /\ ~task.command.triggered
    /\ task.message.provider = "codex"
    /\ task.existing # NoRecord
    /\ task.existing.provider = "claude"
    /\ threads.provider = "claude"

\* ====================================================================
\* Claims on streaming requests and the idempotency key
\* ====================================================================

\* C35: of two POST requests with the same idempotency key, route and body, the
\* second arriving within the TTL of the first, at most one started an agent
\* turn of its own, streaming or not.
C35_OneTurnPerKeyEvenStreaming ==
    \A r, q \in DOMAIN reqs :
        ( /\ r < q
          /\ reqs[r].key # NoKey
          /\ reqs[q].key = reqs[r].key
          /\ SamePayload(r, q)
          /\ reqs[q].at - reqs[r].at <= ttlMs )
        => ~(reqs[r].ran /\ reqs[q].ran)

\* ====================================================================
\* AppServerClient: the wire params of thread/start and thread/resume
\* ====================================================================
\* options.provider as callers write it, and what the constructor's
\* `(options.provider ?? "").trim().toLowerCase()` makes of it
ProviderTokens ==
    {<<Undefined, "">>, <<"claude", "claude">>, <<"pi", "pi">>, <<"codex", "codex">>,
     <<" Codex ", "codex">>}

clientProvider(value) == (CHOOSE p \in ProviderTokens : p[1] = value)[2]

\* CreateThreadOptions / ResumeThreadOptions, an absent field being Undefined
ThreadOptions ==
    [cwd : {Undefined, "/tmp/project"},
     model : {Undefined, "m-other"},
     systemPromptAppend : {Undefined, "append"},
     mcpServers : {Undefined, "servers"},
     approvalPolicy : {Undefined, "never"},
     sandboxMode : {Undefined, "danger-full-access"}]

\* `...(value && { key: value })`
SetIfGiven(params, key, value) == IF value = Undefined THEN params ELSE MapSet(params, key, value)

\* applyInstructionParams, for systemPromptAppend
applyInstructionParams(provider, params, systemPromptAppend) ==
    SetIfGiven(params,
               IF provider = "codex" THEN "developerInstructions" ELSE "systemPromptAppend",
               systemPromptAppend)

\* applyMcpParams: the codex shape is a `config` of overrides
applyMcpParams(provider, params, mcpServers) ==
    IF mcpServers = Undefined THEN params
    ELSE IF provider = "codex" THEN MapSet(params, "config", "mcp_servers." \o mcpServers)
    ELSE MapSet(params, "mcpServers", mcpServers)

\* execution params that are applied whatever the provider
ExecutionParamsForAnyProvider(provider, params, approvalPolicy, sandboxMode) ==
    SetIfGiven(SetIfGiven(params, "approvalPolicy", approvalPolicy), "sandbox", sandboxMode)

applyCodexExecutionParams(provider, params, approvalPolicy, sandboxMode) ==
    IF provider # "codex" THEN params
    ELSE SetIfGiven(SetIfGiven(params, "approvalPolicy", approvalPolicy), "sandbox", sandboxMode)

ApplyThreadOptions(provider, params, opts) ==
    applyCodexExecutionParams(provider,
        applyMcpParams(provider,
            applyInstructionParams(provider, params, opts.systemPromptAppend),
            opts.mcpServers),
        opts.approvalPolicy, opts.sandboxMode)

\* this.cwd of the client
ClientCwd == "/cwd"

buildThreadStartParams(provider, opts) ==
    ApplyThreadOptions(provider,
        SetIfGiven(MapSet(EmptyMap, "cwd", ClientCwd), "model", opts.model), opts)

buildThreadResumeParams(provider, id, opts) ==
    ApplyThreadOptions(provider,
        SetIfGiven(SetIfGiven(MapSet(EmptyMap, "threadId", id), "cwd", opts.cwd),
                   "model", opts.model),
        opts)

\* createThread(options): the request written to the child
createThreadCall ==
    /\ output = <<>>
    /\ input.method = "thread/start"
    /\ output' = <<[method |-> "thread/start",
                    params |-> buildThreadStartParams(clientProvider(input.provider),
                                                      input.options)]>>
    /\ UNCHANGED input
    /\ UNCHANGED <<qvars, ivars, pvars, gvars, hvars, appvars>>

\* resumeThread(threadId, options): the request written to the child
resumeThreadCall ==
    /\ output = <<>>
    /\ input.method = "thread/resume"
    /\ output' = <<[method |-> "thread/resume",
                    params |-> buildThreadResumeParams(clientProvider(input.provider),
                                                       "thread-abc", input.options)]>>
    /\ UNCHANGED input
    /\ UNCHANGED <<qvars, ivars, pvars, gvars, hvars, appvars>>

ThreadParamsInit ==
    /\ input \in [provider : {p[1] : p \in ProviderTokens},
                  method : {"thread/start", "thread/resume"},
                  options : ThreadOptions]
    /\ output = <<>>
    /\ QueueIdle /\ IdemIdle /\ PeerIdle /\ ServerIdle /\ RegistryIdle /\ WebhookIdle

ThreadParamsNext == createThreadCall \/ resumeThreadCall

ThreadParamsSpec == ThreadParamsInit /\ [][ThreadParamsNext]_vars

\* C31: the params a client of another provider than codex writes for
\* thread/start and thread/resume have no `approvalPolicy` and no `sandbox`
\* key, whatever the options say.
C31_NoCodexParamsForOtherProviders ==
    (output # <<>> /\ clientProvider(input.provider) # "codex")
        => /\ ~MapHas(output[1].params, "approvalPolicy")
           /\ ~MapHas(output[1].params, "sandbox")

\* a claude client was asked to resume a thread with both execution options
\* set, and its request carries the other options only
C31_Witness ==
    /\ output # <<>>
    /\ input.provider = "claude"
    /\ input.options.approvalPolicy = "never"
    /\ input.options.sandboxMode = "danger-full-access"
    /\ output[1].method = "thread/resume"
    /\ DOMAIN output[1].params = {"threadId", "cwd", "systemPromptAppend", "mcpServers"}

\* a codex client, written " Codex ", sends both keys
C31_CodexSendsBoth ==
    /\ output # <<>>
    /\ input.provider = " Codex "
    /\ output[1].method = "thread/start"
    /\ MapHas(output[1].params, "approvalPolicy")
    /\ output[1].params["sandbox"] = "danger-full-access"

\* ====================================================================
\* An app server (claude-app-server, pi-app-server): turn/start on one thread
\* ====================================================================
\* turn/start requests the client writes
MaxTurnStarts == 3
\* messages the agent SDK's query() yields in a turn before its result
MaxSdkMessages == 1
\* ErrorCodes.TurnInProgress
TurnInProgress == -32001

\* Thread.isRunning
isRunning(t) == t.currentTurnId # 0 /\ t.abortController # 0

\* the client writes a turn/start for the thread on the server's stdin
clientWrites ==
    /\ Len(turnRuns) + Len(buffer)
           + Cardinality({i \in DOMAIN sent : sent[i].kind = "error"}) < MaxTurnStarts
    /\ buffer' = Append(buffer, [method |-> "turn/start"])
    /\ UNCHANGED <<threadState, turnRuns, sent>>
    /\ UNCHANGED <<qvars, ivars, pvars, gvars, hvars, fvars>>

\* StdioTransport.processLine for a turn/start line: handleTurnStart finds the
\* cached thread; when thread.isRunning() the request is answered with
\* the TurnInProgress error, else executeTurn is started in the background, runs
\* to its `await this.save()`, and the request is answered with the new turn
processLine ==
    /\ buffer # <<>>
    /\ buffer' = Tail(buffer)
    /\ IF isRunning(threadState)
       THEN /\ sent' = Append(sent, [kind |-> "error", code |-> TurnInProgress, turn |-> 0])
            /\ UNCHANGED <<threadState, turnRuns>>
       ELSE LET turnId == Len(turnRuns) + 1
            IN  /\ threadState' = [threadState EXCEPT !.currentTurnId = turnId]
                /\ turnRuns' = Append(turnRuns, [at |-> "save", messages |-> 0])
                /\ sent' = Append(sent, [kind |-> "result", code |-> 0, turn |-> turnId])
    /\ UNCHANGED <<qvars, ivars, pvars, gvars, hvars, fvars>>

\* executeTurn, after `await this.save()`: turn/started is yielded and sent, and
\* the abort controller is created
saveReturns(e) ==
    /\ e \in DOMAIN turnRuns
    /\ turnRuns[e].at = "save"
    /\ sent' = Append(sent, [kind |-> "turn/started", code |-> 0, turn |-> e])
    /\ threadState' = [threadState EXCEPT !.abortController = e]
    /\ turnRuns' = [turnRuns EXCEPT ![e].at = "query"]
    /\ UNCHANGED buffer
    /\ UNCHANGED <<qvars, ivars, pvars, gvars, hvars, fvars>>

\* executeTurn: query() yields a message, translated and sent as a delta
queryYields(e) ==
    /\ e \in DOMAIN turnRuns
    /\ turnRuns[e].at = "query"
    /\ turnRuns[e].messages < MaxSdkMessages
    /\ sent' = Append(sent, [kind |-> "delta", code |-> 0, turn |-> e])
    /\ turnRuns' = [turnRuns EXCEPT ![e].messages = @ + 1]
    /\ UNCHANGED <<buffer, threadState>>
    /\ UNCHANGED <<qvars, ivars, pvars, gvars, hvars, fvars>>

\* executeTurn: query() ends (or throws): turn/completed is yielded and sent,
\* and `finally` clears the abort controller and the current turn id and saves
queryEnds(e) ==
    /\ e \in DOMAIN turnRuns
    /\ turnRuns[e].at = "query"
    /\ sent' = Append(sent, [kind |-> "turn/completed", code |-> 0, turn |-> e])
    /\ threadState' = [currentTurnId |-> 0, abortController |-> 0]
    /\ turnRuns' = [turnRuns EXCEPT ![e].at = "finalSave"]
    /\ UNCHANGED buffer
    /\ UNCHANGED <<qvars, ivars, pvars, gvars, hvars, fvars>>

\* executeTurn: the save in `finally` returns and the generator is done
finalSaveReturns(e) ==
    /\ e \in DOMAIN turnRuns
    /\ turnRuns[e].at = "finalSave"
    /\ turnRuns' = [turnRuns EXCEPT ![e].at = "done"]
    /\ UNCHANGED <<buffer, threadState, sent>>
    /\ UNCHANGED <<qvars, ivars, pvars, gvars, hvars, fvars>>

AppServerInit ==
    ServerIdle /\ QueueIdle /\ IdemIdle /\ PeerIdle /\ RegistryIdle /\ WebhookIdle /\ NoCall

AppServerNext ==
    \/ clientWrites
    \/ processLine
    \/ \E e \in 1..MaxTurnStarts : saveReturns(e)
    \/ \E e \in 1..MaxTurnStarts : queryYields(e)
    \/ \E e \in 1..MaxTurnStarts : queryEnds(e)
    \/ \E e \in 1..MaxTurnStarts : finalSaveReturns(e)

AppServerSpec == AppServerInit /\ [][AppServerNext]_vars

\* the turns that were accepted and have not yet emitted turn/completed
TurnsInProgress == {e \in DOMAIN turnRuns : turnRuns[e].at \in {"save", "query"}}

\* C39: at most one accepted turn of the thread has not yet emitted
\* turn/completed, and a turn/start processed while there is one is answered
\* with the TurnInProgress error and starts no turn.
C39_OneTurnPerThread ==
    /\ [](Cardinality(TurnsInProgress) <= 1)
    /\ [][(buffer # <<>> /\ buffer' = Tail(buffer) /\ TurnsInProgress # {})
            => /\ turnRuns' = turnRuns
               /\ sent' = Append(sent, [kind |-> "error", code |-> TurnInProgress,
                                        turn |-> 0])]_vars

====
